---- MODULE Spec2Model ----
(***************************************************************************)
(* Scheduling and pipeline-orchestration core of the news aggregator:      *)
(*   backend/src/tasks/scheduler.js       (ProductionScheduler)            *)
(*   backend/src/services/contentService  (ContentService, part_010)       *)
(*   backend/src/services/cacheService    (CacheService, part_010)         *)
(*   backend/src/routes/scrape.js         (POST /api/scrape/manual)        *)
(*   backend/src/routes/categories.js     (GET /api/categories, part_011)  *)
(*   backend/app.js                       (trigger endpoint, part_013)     *)
(*   backend/apify-to-airtable*.js        (processApifyRun)                *)
(* Every specification below shares the variables; a specification leaves  *)
(* the variables of the other parts at their initial value.                *)
(***************************************************************************)
EXTENDS Integers, Sequences, FiniteSets, Bags, TLC

VARIABLES
    procEnv,        \* replica -> process.env seen by that replica
    config,         \* replica -> this.config of that replica's scheduler (or NoConfig)
    replicaJobs,    \* replica -> names of the cron jobs that replica registered and started
    sched,          \* the scheduler's configuration and collaborators (fixed per process)
    jobs,           \* this.jobs: job name -> state of the cron task registered under it
    orphans,        \* job name -> 1 when a started cron task of that job is no longer in the registry
    isRunning,      \* this.isRunning
    calls,          \* suspended initialize / shutdown calls and the last results returned
    execs,          \* bag of the executions of executeJobSafely, running and settled
    svc,            \* ContentService fields set by its constructor
    retry,          \* the executeWithRetry call in progress and what it did so far
    pipe,           \* the executeFullPipeline run in progress and what it did so far
    dedup,          \* a deduplicateArticles call: input, output, output of a second pass
    enrich,         \* a processWithOpenAI call: its batches, provider calls and output
    persist,        \* a saveToAirtable call: its batches, store writes and result
    status,         \* two schedulers' environments and what getStatus returned for each
    cache,          \* the cache service, the store behind it, its callers and what they got
    norm,           \* a normalizeArticle call: the raw item and the article returned
    transfer,       \* a processApifyRun call of the transfer script and its writes
    proc            \* the process: signals received, its shutdown handler, whether it exited

eligVars == <<procEnv, config, replicaJobs>>
schedVars == <<sched, jobs, orphans, isRunning, calls, execs>>

contentVars == <<svc, retry, pipe>>

moreVars == <<status, cache, norm, transfer, proc>>

stageVars == <<dedup, enrich, persist, moreVars>>

vars == <<eligVars, schedVars, contentVars, stageVars>>

(***************************************************************************)
(* Part 1 - eligibility decision (scheduler.js getSchedulerConfig and      *)
(* shouldRunScheduler), on the replicas of one horizontally scaled service *)
(***************************************************************************)

\* number of replicas of the service
NumReplicas == 2
Replicas == 1 .. NumReplicas

\* an environment variable that is not set reads as undefined
Undefined == "<undefined>"

EnableSchedulerValues == {Undefined, "true", "false", "1"}
SchedulerInstanceValues == {Undefined, "true", "false"}
ReplicaIdValues == {Undefined, "0", "1", "2"}
NodeEnvValues == {Undefined, "development", "production"}

JobNames == {"dailyScrape", "cleanup", "cacheCleanup"}

NoConfig == [constructed |-> FALSE, enabled |-> FALSE, environment |-> Undefined]

\* the same cascade with the dedicated-instance test moved in front of the
\* explicit disable
ShouldRunScheduler_InstanceFirst(enableScheduler, schedulerInstance, replicaId, nodeEnv) ==
    IF schedulerInstance = "true" THEN TRUE
    ELSE IF enableScheduler = "false" THEN FALSE
    ELSE IF enableScheduler = "true" THEN TRUE
    ELSE IF replicaId # Undefined /\ replicaId # "0" THEN FALSE
    ELSE IF nodeEnv = "development" THEN TRUE
    ELSE FALSE

\* the cascade with the replica test in front of the explicit enable
ShouldRunScheduler_ReplicaFirst(enableScheduler, schedulerInstance, replicaId, nodeEnv) ==
    IF enableScheduler = "false" THEN FALSE
    ELSE IF replicaId # Undefined /\ replicaId # "0" THEN FALSE
    ELSE IF enableScheduler = "true" THEN TRUE
    ELSE IF schedulerInstance = "true" THEN TRUE
    ELSE IF nodeEnv = "development" THEN TRUE
    ELSE FALSE

ShouldRunScheduler(enableScheduler, schedulerInstance, replicaId, nodeEnv) ==
    IF enableScheduler = "false" THEN FALSE
    ELSE IF enableScheduler = "true" THEN TRUE
    ELSE IF schedulerInstance = "true" THEN TRUE
    ELSE IF replicaId # Undefined /\ replicaId # "0" THEN FALSE
    ELSE IF nodeEnv = "development" THEN TRUE
    ELSE FALSE

\* process.env.NODE_ENV || 'development'
NodeEnvOf(e) == IF e.NODE_ENV = Undefined THEN "development" ELSE e.NODE_ENV

GetSchedulerConfig(e) ==
    [constructed |-> TRUE,
     enabled     |-> ShouldRunScheduler(e.ENABLE_SCHEDULER, e.SCHEDULER_INSTANCE,
                                        e.RAILWAY_REPLICA_ID, NodeEnvOf(e)),
     environment |-> NodeEnvOf(e)]

(***************************************************************************)
(* Part 2 - the scheduler of one process (scheduler.js): job registry,     *)
(* cron tasks, executeJobSafely, triggerJob, shutdown                      *)
(***************************************************************************)

\* executions of executeJobSafely followed in one behaviour
MaxExecs == 2

Capabilities == {"contentService.executeFullPipeline",
                 "airtableService.cleanOldArticles",
                 "cacheService.invalidate"}

\* createJobs lists the jobs in this order
JobOrder == <<"dailyScrape", "cleanup", "cacheCleanup">>

\* suspended calls, what the last call of the scheduler's interface returned,
\* the capabilities named by the last error of validateServices, and
\* whether setupGracefulShutdown has installed its signal handlers
NoCalls == [initPending |-> 0, shutdownPending |-> 0, lastReturn |-> "none",
            named |-> {}, handlers |-> FALSE]

\* the scheduler while another part of the system is examined
SchedIdle ==
    /\ sched = [enabled |-> FALSE, webhookUrl |-> FALSE, services |-> {},
                validSchedule |-> [n \in JobNames |-> TRUE], stopFails |-> {}]
    /\ jobs = [n \in JobNames |-> "absent"]
    /\ orphans = [n \in JobNames |-> 0]
    /\ isRunning = FALSE
    /\ calls = NoCalls
    /\ execs = EmptyBag

(***************************************************************************)
(* Part 3 - ContentService (part_010): state of a service instance         *)
(***************************************************************************)

\* parseInt on the strings the environment variables take here; anything
\* that does not start with a number, and an unset variable, parse to NaN
Numerals == ("-1" :> -1) @@ ("0" :> 0) @@ ("1" :> 1) @@ ("2" :> 2) @@ ("500" :> 500)

ParseInt(text) ==
    IF text \in DOMAIN Numerals
    THEN [nan |-> FALSE, n |-> Numerals[text]]
    ELSE [nan |-> TRUE, n |-> 0]

\* parseInt(process.env.X) || fallback: NaN and 0 are falsy
ParseIntOr(text, fallback) ==
    IF ParseInt(text).nan \/ ParseInt(text).n = 0 THEN fallback ELSE ParseInt(text).n

DefaultMaxRetries == 3
DefaultRetryDelay == 2000
DefaultBatchSize == 5

\* values of SCRAPING_MAX_RETRIES, SCRAPING_RETRY_DELAY, SCRAPING_BATCH_SIZE
MaxRetriesEnv == {Undefined, "-1", "0", "1", "2"}
RetryDelayEnv == {Undefined, "500"}
BatchSizeEnv == {Undefined, "1"}

ContentServiceConstructor(retriesEnv, delayEnv, batchEnv) ==
    [maxRetries |-> ParseIntOr(retriesEnv, DefaultMaxRetries),
     retryDelay |-> ParseIntOr(delayEnv, DefaultRetryDelay),
     batchSize  |-> ParseIntOr(batchEnv, DefaultBatchSize)]

NoRetry == [pc |-> "idle", attempt |-> 0, maxRetries |-> 0, calls |-> 0,
            waits |-> <<>>, log |-> <<>>, out |-> Undefined]

NoResult == [state |-> "pending", keys |-> {}, stats |-> <<>>]

NoPipe == [pc |-> "idle", origin |-> Undefined, nSources |-> 0, src |-> 0,
           all |-> <<>>, raw |-> <<>>, processed |-> <<>>, saved |-> <<>>,
           batch |-> 0, result |-> NoResult, error |-> Undefined, exhausted |-> 0,
           stages |-> <<"Idle">>, scrapeCalls |-> <<>>, enrichCalls |-> 0,
           storeWrites |-> 0, alerts |-> 0, invalidated |-> {}, i |-> 0, pushed |-> 0]

\* the content service while another part of the system is examined
ContentIdle ==
    /\ svc = ContentServiceConstructor(Undefined, Undefined, Undefined)
    /\ retry = NoRetry
    /\ pipe = NoPipe

NoDedup == [pc |-> "idle", in |-> <<>>, out |-> <<>>, twice |-> <<>>]

DedupIdle == dedup = NoDedup

NoEnrich == [pc |-> "idle", in |-> <<>>, batch |-> 0, status |-> <<>>,
             outcomes |-> <<>>, results |-> <<>>, out |-> <<>>, delays |-> 0]

EnrichIdle == enrich = NoEnrich

NoPersist == [pc |-> "idle", in |-> <<>>, batch |-> 0, submitted |-> <<>>,
              failed |-> {}, single |-> 0, saved |-> <<>>, failedCount |-> 0]

PersistIdle == persist = NoPersist

NoStatus == [env |-> <<>>, registered |-> <<>>, out |-> <<>>]

StatusIdle == status = NoStatus

NoCache == [connected |-> FALSE, store |-> <<>>, db |-> 0, reader |-> <<>>,
            job |-> [kind |-> Undefined, pc |-> "idle"], inval |-> <<>>]

CacheIdle == cache = NoCache

NoNorm == [raw |-> <<>>, out |-> <<>>, alt |-> <<>>, enriched |-> <<>>]

NormIdle == norm = NoNorm

NoTransfer == [pc |-> "idle", n |-> 0, i |-> 0, k |-> 0, submitted |-> <<>>,
               failed |-> {}, singles |-> <<>>, totalCreated |-> 0]

TransferIdle == transfer = NoTransfer

NoProc == [pc |-> "idle"]

ProcIdle == proc = NoProc

MoreIdle == StatusIdle /\ CacheIdle /\ NormIdle /\ TransferIdle /\ ProcIdle

StageIdle == DedupIdle /\ EnrichIdle /\ PersistIdle /\ MoreIdle

\* the replicas while another part of the system is examined
EligIdle ==
    /\ procEnv = [r \in Replicas |->
                    [ENABLE_SCHEDULER   |-> Undefined,
                     SCHEDULER_INSTANCE |-> Undefined,
                     RAILWAY_REPLICA_ID |-> Undefined,
                     NODE_ENV           |-> Undefined]]
    /\ config = [r \in Replicas |-> NoConfig]
    /\ replicaJobs = [r \in Replicas |-> {}]

\* The replicas of one service share the service's variables; the platform
\* gives each replica its own RAILWAY_REPLICA_ID.
InitElig ==
    /\ \E en \in EnableSchedulerValues, si \in SchedulerInstanceValues, ne \in NodeEnvValues :
         \E rid \in [Replicas -> ReplicaIdValues] :
            /\ \/ \A r \in Replicas : rid[r] = Undefined
               \/ /\ \A r \in Replicas : rid[r] # Undefined
                  /\ \A r, q \in Replicas : r # q => rid[r] # rid[q]
            /\ procEnv = [r \in Replicas |->
                            [ENABLE_SCHEDULER   |-> en,
                             SCHEDULER_INSTANCE |-> si,
                             RAILWAY_REPLICA_ID |-> rid[r],
                             NODE_ENV           |-> ne]]
    /\ config = [r \in Replicas |-> NoConfig]
    /\ replicaJobs = [r \in Replicas |-> {}]
    /\ SchedIdle
    /\ ContentIdle
    /\ StageIdle

\* new ProductionScheduler() at module load of replica r
Construct(r) ==
    /\ ~config[r].constructed
    /\ config' = [config EXCEPT ![r] = GetSchedulerConfig(procEnv[r])]
    /\ UNCHANGED <<procEnv, replicaJobs, schedVars, contentVars, stageVars>>

\* scheduler.initialize() of replica r with every collaborator present:
\* a disabled scheduler registers nothing, an enabled one creates and
\* starts the three jobs
ReplicaInitialize(r) ==
    /\ config[r].constructed
    /\ replicaJobs[r] = {}
    /\ config[r].enabled
    /\ replicaJobs' = [replicaJobs EXCEPT ![r] = JobNames]
    /\ UNCHANGED <<procEnv, config, schedVars, contentVars, stageVars>>

NextElig ==
    \/ \E r \in Replicas : Construct(r)
    \/ \E r \in Replicas : ReplicaInitialize(r)

SpecElig == InitElig /\ [][NextElig]_vars

C2_OnlyReplicaZero ==
    \A r \in Replicas :
        ( /\ config[r].constructed
          /\ procEnv[r].ENABLE_SCHEDULER = "true"
          /\ procEnv[r].SCHEDULER_INSTANCE = Undefined )
        => ( (config[r].enabled \/ replicaJobs[r] # {})
                => procEnv[r].RAILWAY_REPLICA_ID = "0" )

(***************************************************************************)
(* Part 2, continued - operations of the scheduler.  A cron task is known  *)
(* by its job name, by whether it is started and by whether the registry   *)
(* still holds it; a stopped task the registry dropped can never fire      *)
(* again and is forgotten.                                                 *)
(***************************************************************************)

\* initialize / shutdown calls that may be suspended at the same time
MaxPending == 2

\* an execution of executeJobSafely(name, handler) at its await of handler()
NewExec(name, origin) ==
    [job |-> name, origin |-> origin, pc |-> "handler", failed |-> FALSE, alert |-> "none",
     returned |-> FALSE]

Running(pc) == {x \in BagToSet(execs) : x.pc = pc}

Replace(x, y) == (execs (-) SetToBag({x})) (+) SetToBag({y})

\* validateServices: the capabilities that are not functions
MissingServices == Capabilities \ sched.services

\* validateServices stopping at the first capability that is missing
ValidateServices_FirstOnly ==
    IF MissingServices = {} THEN {}
    ELSE {CHOOSE c \in MissingServices : TRUE}

\* validateServices: the capabilities its error names (none: it returns)
ValidateServices == MissingServices

\* the registry entry of name is overwritten or cleared: a started task
\* keeps firing without being reachable through this.jobs (how many such
\* tasks a job has makes no difference to what can happen next)
Dropped(st, name) ==
    IF st.jobs[name] = "started"
    THEN [st.orphans EXCEPT ![name] = 1]
    ELSE st.orphans

\* one iteration of createJobs' forEach: cron.schedule throws on an invalid
\* expression, the catch logs and the registry keeps what it had
CreateJob(st, name) ==
    IF sched.validSchedule[name]
    THEN [jobs |-> [st.jobs EXCEPT ![name] = "stopped"],
          orphans |-> Dropped(st, name)]
    ELSE st

CreateJobs(st) ==
    CreateJob(CreateJob(CreateJob(st, JobOrder[1]), JobOrder[2]), JobOrder[3])

\* startJobs: job.start() on every entry of the registry
StartJobs(st) ==
    [jobs |-> [n \in JobNames |-> IF st.jobs[n] = "absent" THEN "absent" ELSE "started"],
     orphans |-> st.orphans]

StartedCount(st) == Cardinality({n \in JobNames : st.jobs[n] # "absent"})

\* the configured cron expressions: all valid, one that cron.schedule
\* rejects, or all rejected
ScheduleChoices ==
    {[n \in JobNames |-> TRUE],
     [n \in JobNames |-> n # "dailyScrape"],
     [n \in JobNames |-> FALSE]}

\* the jobs whose task throws from stop(); such a task stays started
StopFailChoices == {{}, {"cleanup"}}

AllValid == [n \in JobNames |-> TRUE]

\* the configurations a behaviour starts from: a disabled scheduler; an
\* enabled one with some required operation missing; an enabled one with
\* every operation present and either a webhook, or some schedule
\* expression that cron.schedule rejects, or a task whose stop() throws
SchedConfigs ==
    {[enabled |-> FALSE, webhookUrl |-> FALSE, services |-> Capabilities,
      validSchedule |-> AllValid, stopFails |-> {}],
     [enabled |-> TRUE, webhookUrl |-> TRUE, services |-> Capabilities,
      validSchedule |-> AllValid, stopFails |-> {}]}
    \cup {[enabled |-> TRUE, webhookUrl |-> FALSE, services |-> s,
           validSchedule |-> AllValid, stopFails |-> {}] :
              s \in (SUBSET Capabilities) \ {Capabilities}}
    \cup {[enabled |-> TRUE, webhookUrl |-> FALSE, services |-> Capabilities,
           validSchedule |-> v, stopFails |-> {}] : v \in ScheduleChoices \ {AllValid}}
    \cup {[enabled |-> TRUE, webhookUrl |-> FALSE, services |-> Capabilities,
           validSchedule |-> AllValid, stopFails |-> f] : f \in StopFailChoices \ {{}}}

InitSched ==
    /\ sched \in SchedConfigs
    /\ jobs = [n \in JobNames |-> "absent"]
    /\ orphans = [n \in JobNames |-> 0]
    /\ isRunning = FALSE
    /\ calls = NoCalls
    /\ execs = EmptyBag
    /\ EligIdle
    /\ ContentIdle
    /\ StageIdle

\* initialize() up to its await of validateServices()
InitializeCall ==
    /\ calls.initPending + calls.shutdownPending < MaxPending
    /\ IF ~sched.enabled \/ isRunning
       THEN calls' = [calls EXCEPT !.lastReturn = "initialize false"]
       ELSE calls' = [calls EXCEPT !.initPending = @ + 1]
    /\ UNCHANGED <<sched, jobs, orphans, isRunning, execs, eligVars, contentVars, stageVars>>

\* initialize() from the await on: validation result, createJobs, startJobs
InitializeResume ==
    /\ calls.initPending > 0
    /\ IF ValidateServices # {}
       THEN /\ calls' = [calls EXCEPT !.initPending = @ - 1,
                                      !.lastReturn = "initialize threw",
                                      !.named = ValidateServices]
            /\ UNCHANGED <<jobs, orphans, isRunning>>
       ELSE /\ LET st == StartJobs(CreateJobs([jobs |-> jobs, orphans |-> orphans]))
               IN  /\ jobs' = st.jobs
                   /\ orphans' = st.orphans
                   /\ isRunning' = (StartedCount(st) > 0)
            /\ calls' = [calls EXCEPT !.initPending = @ - 1,
                                      !.lastReturn = "initialize true",
                                      !.handlers = TRUE]
    /\ UNCHANGED <<sched, execs, eligVars, contentVars, stageVars>>

\* node-cron calls the registered callback at every matching time of a
\* started task, whether or not an earlier call has settled; the callback
\* starts executeJobSafely(name, handler)
CronFire(name) ==
    /\ jobs[name] = "started" \/ orphans[name] > 0
    /\ BagCardinality(execs) < MaxExecs
    /\ execs' = execs (+) SetToBag({NewExec(name, "cron")})
    /\ UNCHANGED <<sched, jobs, orphans, isRunning, calls, eligVars, contentVars, stageVars>>

\* triggerJob(jobName) returning without the await of executeJobSafely
TriggerJob_NoAwait(name) ==
    /\ IF ~sched.enabled
       THEN /\ calls' = [calls EXCEPT !.lastReturn = "triggerJob threw Scheduler is disabled"]
            /\ UNCHANGED execs
       ELSE IF name \notin JobNames
       THEN /\ calls' = [calls EXCEPT !.lastReturn = "triggerJob threw Unknown job"]
            /\ UNCHANGED execs
       ELSE /\ BagCardinality(execs) < MaxExecs
            /\ execs' = execs (+) SetToBag({[NewExec(name, "manual") EXCEPT !.returned = TRUE]})
            /\ UNCHANGED calls
    /\ UNCHANGED <<sched, jobs, orphans, isRunning, eligVars, contentVars, stageVars>>

\* triggerJob(jobName) up to the await of executeJobSafely; the call settles
\* when the execution does
TriggerJob(name) ==
    /\ IF ~sched.enabled
       THEN /\ calls' = [calls EXCEPT !.lastReturn = "triggerJob threw Scheduler is disabled"]
            /\ UNCHANGED execs
       ELSE IF name \notin JobNames
       THEN /\ calls' = [calls EXCEPT !.lastReturn = "triggerJob threw Unknown job"]
            /\ UNCHANGED execs
       ELSE /\ BagCardinality(execs) < MaxExecs
            /\ execs' = execs (+) SetToBag({NewExec(name, "manual")})
            /\ UNCHANGED calls
    /\ UNCHANGED <<sched, jobs, orphans, isRunning, eligVars, contentVars, stageVars>>

\* executeJobSafely without its catch: the error of the handler rejects it
HandlerSettles_Rethrow(x, ok) ==
    /\ x \in Running("handler")
    /\ execs' = Replace(x,
                   IF ok THEN [x EXCEPT !.pc = "resolved", !.returned = TRUE]
                   ELSE [x EXCEPT !.pc = "rejected", !.failed = TRUE, !.returned = TRUE])
    /\ UNCHANGED <<sched, jobs, orphans, isRunning, calls, eligVars, contentVars, stageVars>>

\* executeJobSafely from the await of handler() on: the handler resolved, or
\* it rejected and the catch logs and calls sendJobFailureAlert, which posts
\* to the webhook when one is configured
HandlerSettles(x, ok) ==
    /\ x \in Running("handler")
    /\ execs' = Replace(x,
                   IF ok THEN [x EXCEPT !.pc = "resolved", !.returned = TRUE]
                   ELSE IF sched.webhookUrl
                   THEN [x EXCEPT !.pc = "alert", !.failed = TRUE, !.alert = "posting"]
                   ELSE [x EXCEPT !.pc = "resolved", !.failed = TRUE, !.alert = "logged",
                                  !.returned = TRUE])
    /\ UNCHANGED <<sched, jobs, orphans, isRunning, calls, eligVars, contentVars, stageVars>>

\* sendJobFailureAlert without its try/catch: a failed post rejects
AlertSettles_NoCatch(x, ok) ==
    /\ x \in Running("alert")
    /\ execs' = Replace(x,
                   IF ok THEN [x EXCEPT !.pc = "resolved", !.alert = "sent", !.returned = TRUE]
                   ELSE [x EXCEPT !.pc = "rejected", !.alert = "failed", !.returned = TRUE])
    /\ UNCHANGED <<sched, jobs, orphans, isRunning, calls, eligVars, contentVars, stageVars>>

\* sendJobFailureAlert from the await of fetch on: a failure to send is
\* caught and logged, executeJobSafely then resolves
AlertSettles(x, ok) ==
    /\ x \in Running("alert")
    /\ execs' = Replace(x, [x EXCEPT !.pc = "resolved", !.returned = TRUE,
                                     !.alert = IF ok THEN "sent" ELSE "failed"])
    /\ UNCHANGED <<sched, jobs, orphans, isRunning, calls, eligVars, contentVars, stageVars>>

\* the stop() calls of shutdown in one try block: the first error ends them
StopAll_FailFast(registry) ==
    [n \in JobNames |->
        IF registry[n] = "absent" THEN "absent"
        ELSE IF \E k \in DOMAIN JobOrder :
                   /\ JobOrder[k] \in sched.stopFails
                   /\ registry[JobOrder[k]] # "absent"
                   /\ \E m \in DOMAIN JobOrder : m >= k /\ JobOrder[m] = n
        THEN registry[n]
        ELSE "stopped"]

\* the stop() calls of shutdown, each in its own try/catch
StopAll(registry) ==
    [n \in JobNames |->
        IF registry[n] = "absent" THEN "absent"
        ELSE IF n \in sched.stopFails THEN registry[n]
        ELSE "stopped"]

\* shutdown() up to its await of Promise.all: job.stop() on every entry,
\* each in its own try/catch
ShutdownCallStep ==
    /\ calls.initPending + calls.shutdownPending < MaxPending
    /\ IF ~isRunning
       THEN /\ calls' = [calls EXCEPT !.lastReturn = "shutdown not running"]
            /\ UNCHANGED jobs
       ELSE /\ jobs' = StopAll(jobs)
            /\ calls' = [calls EXCEPT !.shutdownPending = @ + 1]

ShutdownCall ==
    /\ ShutdownCallStep
    /\ UNCHANGED <<sched, orphans, isRunning, execs, eligVars, contentVars, stageVars>>

\* shutdown() from the await on: jobs.clear(), isRunning = false
ShutdownResume ==
    /\ calls.shutdownPending > 0
    /\ LET st == [jobs |-> jobs, orphans |-> orphans]
           o1 == Dropped(st, JobOrder[1])
           o2 == Dropped([st EXCEPT !.orphans = o1], JobOrder[2])
           o3 == Dropped([st EXCEPT !.orphans = o2], JobOrder[3])
       IN  orphans' = o3
    /\ jobs' = [n \in JobNames |-> "absent"]
    /\ isRunning' = FALSE
    /\ calls' = [calls EXCEPT !.shutdownPending = @ - 1,
                              !.lastReturn = "shutdown complete"]
    /\ UNCHANGED <<sched, execs, eligVars, contentVars, stageVars>>

NextSched ==
    \/ InitializeCall
    \/ InitializeResume
    \/ \E name \in JobNames : CronFire(name)
    \/ \E name \in JobNames \cup {"unknownJob"} : TriggerJob(name)
    \/ \E x \in BagToSet(execs), ok \in BOOLEAN : HandlerSettles(x, ok)
    \/ \E x \in BagToSet(execs), ok \in BOOLEAN : AlertSettles(x, ok)
    \/ ShutdownCall
    \/ ShutdownResume

SpecSched == InitSched /\ [][NextSched]_vars

InFlight(x) == x.pc \in {"handler", "alert"}

\* C3: considering only cron firings, at most one execution of a given job
\* is in flight at any time.
C3_NoOverlap ==
    \A x, y \in BagToSet(execs) :
        (x.origin = "cron" /\ y.origin = "cron" /\ x.job = y.job /\ InFlight(x) /\ InFlight(y))
            => (x = y /\ CopiesIn(x, execs) = 1)

\* a step in which an execution of executeJobSafely moves on
ExecutionStep ==
    /\ execs' # execs
    /\ BagCardinality(execs') = BagCardinality(execs)

\* C4: when a job handler throws, executeJobSafely attempts the failure alert
\* and resolves; it never rejects, even when sending the alert fails, and
\* the step leaves isRunning and the job registry (so the started cron
\* tasks and their later firings) as they were.
C4_FailureIsolated ==
    /\ [](\A x \in BagToSet(execs) :
            /\ x.pc # "rejected"
            /\ (x.failed /\ x.pc = "resolved") => x.alert \in {"logged", "sent", "failed"}
            /\ (x.failed /\ x.pc = "alert") => x.alert = "posting")
    /\ [][ExecutionStep => UNCHANGED <<isRunning, jobs, orphans>>]_vars

\* a cron firing failed, its alert could not be sent, the execution resolved
\* and the scheduler keeps running another job
C4_Witness ==
    \E x, y \in BagToSet(execs) :
        /\ x.origin = "cron" /\ x.failed /\ x.alert = "failed" /\ x.pc = "resolved"
        /\ y.job # x.job /\ y.origin = "cron" /\ y.pc = "handler"
        /\ isRunning /\ jobs[x.job] = "started"

\* C16: on an enabled scheduler with a required collaborator operation
\* missing, initialize never returns: it throws one error naming every
\* missing capability; no job is registered or started, no timer exists,
\* no signal handler is installed and isRunning stays false.
C16_FailFast ==
    (sched.enabled /\ sched.services # Capabilities) =>
        /\ \A n \in JobNames : jobs[n] = "absent" /\ orphans[n] = 0
        /\ ~isRunning
        /\ ~calls.handlers
        /\ calls.lastReturn \notin {"initialize true", "initialize false"}
        /\ calls.lastReturn = "initialize threw" =>
              calls.named = Capabilities \ sched.services

\* initialize threw with two capabilities missing, both named
C16_Witness ==
    /\ sched.enabled
    /\ sched.services = {"contentService.executeFullPipeline"}
    /\ calls.lastReturn = "initialize threw"
    /\ calls.named = {"airtableService.cleanOldArticles", "cacheService.invalidate"}
    /\ calls.initPending = 0

\* a step in which a call of initialize returns true
InitializeReturnsTrue ==
    /\ calls'.initPending < calls.initPending
    /\ calls'.lastReturn = "initialize true"

\* C17: whenever initialize returns true, the three jobs dailyScrape,
\* cleanup and cacheCleanup are registered and started and isRunning is
\* true, whatever the configured schedule expressions.
C17_AllThreeStarted ==
    [][InitializeReturnsTrue => (isRunning' /\ \A n \in JobNames : jobs'[n] = "started")]_vars

\* a step in which a call of triggerJob throws
TriggerJobThrows ==
    /\ calls'.lastReturn # calls.lastReturn
    /\ calls'.lastReturn \in {"triggerJob threw Scheduler is disabled",
                              "triggerJob threw Unknown job"}

\* C18: a manual execution exists only on an enabled scheduler and for one
\* of the three job names, and its triggerJob call has settled only when
\* the execution has resolved (never while the handler runs); triggerJob
\* throws 'Unknown job' only when enabled and 'Scheduler is disabled' only
\* when disabled, in both cases starting no handler; no step starts more
\* than one execution.
C18_TriggerJob ==
    /\ [](\A x \in BagToSet(execs) :
            x.origin = "manual" =>
                /\ sched.enabled
                /\ x.job \in JobNames
                /\ x.returned <=> x.pc = "resolved")
    /\ [](/\ calls.lastReturn = "triggerJob threw Unknown job" => sched.enabled
          /\ calls.lastReturn = "triggerJob threw Scheduler is disabled" => ~sched.enabled)
    /\ [][/\ TriggerJobThrows => execs' = execs
          /\ BagCardinality(execs') <= BagCardinality(execs) + 1]_vars

\* a triggered job whose handler failed has resolved, another triggered job
\* is still running, and an unknown name was rejected
C18_Witness ==
    /\ calls.lastReturn = "triggerJob threw Unknown job"
    /\ \E x, y \in BagToSet(execs) :
          /\ x.origin = "manual" /\ x.pc = "resolved" /\ x.failed /\ x.returned
          /\ y.origin = "manual" /\ y.pc = "handler" /\ ~y.returned

\* C19: a shutdown call on a running scheduler stops every registered job
\* whose stop() does not throw, and when it completes the registry is empty
\* and isRunning is false; a shutdown call on a scheduler that is not
\* running changes nothing.
C19_Shutdown ==
    [][/\ calls'.shutdownPending > calls.shutdownPending =>
             /\ isRunning
             /\ \A n \in JobNames :
                   (jobs[n] # "absent" /\ n \notin sched.stopFails) => jobs'[n] = "stopped"
       /\ calls'.shutdownPending < calls.shutdownPending =>
             /\ \A n \in JobNames : jobs'[n] = "absent"
             /\ ~isRunning'
       /\ (calls'.lastReturn = "shutdown not running" /\ calls' # calls) =>
             /\ ~isRunning
             /\ UNCHANGED <<jobs, orphans, isRunning, execs, sched>>
             /\ calls'.shutdownPending = calls.shutdownPending]_vars

\* shutdown is suspended after its stop() calls: the task of cleanup threw
\* from stop() and the two other tasks are stopped
C19_Witness ==
    /\ calls.shutdownPending = 1
    /\ sched.stopFails = {"cleanup"}
    /\ jobs = [n \in JobNames |-> IF n = "cleanup" THEN "started" ELSE "stopped"]

\* C20: once a shutdown call has completed (and no initialize was called
\* since), no started cron task is left, so no cron firing starts a handler.
C20_NoFiringAfterShutdown ==
    ( /\ calls.lastReturn = "shutdown complete"
      /\ calls.initPending = 0
      /\ calls.shutdownPending = 0 )
        => \A n \in JobNames : jobs[n] # "started" /\ orphans[n] = 0

\* how the triggerJob call behind a manual execution has settled:
\* return await executeJobSafely(...), which has no return statement
TriggerJobOutcome(x) ==
    IF ~x.returned THEN "pending"
    ELSE IF x.pc = "rejected" THEN "rejected"
    ELSE "resolved undefined"

\* POST /scheduler/trigger/:jobName: the answer once triggerJob has settled
TriggerEndpoint(jobName, outcome) ==
    IF jobName \notin {"dailyScrape", "cleanup", "cacheCleanup"}
    THEN [status |-> 400, body |-> "Invalid job name"]
    ELSE IF outcome = "rejected"
    THEN [status |-> 400, body |-> "error"]
    ELSE [status |-> 200, body |-> "success"]

\* C27: the triggerJob call of a manual execution resolves without a value
\* whether the handler returned or threw, and the HTTP trigger endpoint
\* answers success in both cases.
C27_TriggerHidesFailure ==
    \A x \in BagToSet(execs) :
        (x.origin = "manual" /\ x.returned) =>
            /\ TriggerJobOutcome(x) = "resolved undefined"
            /\ TriggerEndpoint(x.job, TriggerJobOutcome(x)) =
                   [status |-> 200, body |-> "success"]

\* two triggered jobs have settled, the handler of one threw and its alert
\* could not be sent, the handler of the other returned
C27_Witness ==
    \E x, y \in BagToSet(execs) :
        /\ x.origin = "manual" /\ x.returned /\ x.failed /\ x.alert = "failed"
        /\ y.origin = "manual" /\ y.returned /\ ~y.failed

\* C25: whatever initialize and shutdown calls were made, overlapping ones
\* included, every started cron task whose stop() works is held by the
\* registry, so no job name has a second started task, and after a
\* completed shutdown none of them is started.
C25_StartedTimersRegistered ==
    sched.stopFails = {} =>
        /\ \A n \in JobNames : orphans[n] = 0
        /\ (~isRunning /\ calls.initPending = 0 /\ calls.shutdownPending = 0)
              => \A n \in JobNames : jobs[n] # "started"

(***************************************************************************)
(* Part 3, continued - executeWithRetry                                    *)
(***************************************************************************)

Errors == {"E1", "E2"}
Results == {"R1", "R2"}

\* this.retryDelay with no multiplication by the attempt number
BackoffDelay_Constant(attempt) == svc.retryDelay

\* the argument of this.delay after a failed attempt
BackoffDelay(attempt) == svc.retryDelay * attempt

\* executeWithRetry(operation, context, maxRetries) up to its first await:
\* the loop is entered when 1 <= maxRetries and operation() is called,
\* otherwise the function falls off its end and returns undefined
RetryBegin(maxRetries) ==
    IF 1 <= maxRetries
    THEN [pc |-> "calling", attempt |-> 1, maxRetries |-> maxRetries, calls |-> 1,
          waits |-> <<>>, log |-> <<>>, out |-> Undefined]
    ELSE [pc |-> "returned", attempt |-> 1, maxRetries |-> maxRetries, calls |-> 0,
          waits |-> <<>>, log |-> <<>>, out |-> Undefined]

\* from the await of operation() on: the result is returned, or the error is
\* logged and either thrown (last attempt) or followed by the backoff delay
RetrySettle(r, ok, value, error) ==
    IF ok
    THEN [r EXCEPT !.pc = "returned", !.out = value,
                   !.log = Append(@, [ok |-> TRUE, value |-> value])]
    ELSE IF r.attempt = r.maxRetries
    THEN [r EXCEPT !.pc = "threw", !.out = error,
                   !.log = Append(@, [ok |-> FALSE, value |-> error])]
    ELSE [r EXCEPT !.pc = "waiting",
                   !.waits = Append(@, BackoffDelay(r.attempt)),
                   !.log = Append(@, [ok |-> FALSE, value |-> error])]

\* from the await of this.delay on: attempt++, loop test, operation() again
RetryWake(r) ==
    IF r.attempt + 1 <= r.maxRetries
    THEN [r EXCEPT !.pc = "calling", !.attempt = @ + 1, !.calls = @ + 1]
    ELSE [r EXCEPT !.pc = "returned", !.attempt = @ + 1, !.out = Undefined]

InitRetry ==
    /\ \E re \in MaxRetriesEnv, de \in RetryDelayEnv, be \in BatchSizeEnv :
          svc = ContentServiceConstructor(re, de, be)
    /\ retry = NoRetry
    /\ pipe = NoPipe
    /\ EligIdle
    /\ SchedIdle
    /\ StageIdle

\* a caller starts executeWithRetry with the default or an explicit maxRetries
ExecuteWithRetry(maxRetries) ==
    /\ retry.pc \in {"idle", "returned", "threw"}
    /\ pipe.pc = "idle"
    /\ retry' = RetryBegin(maxRetries)
    /\ UNCHANGED <<svc, pipe, eligVars, schedVars, stageVars>>

OperationSettles(ok, value, error) ==
    /\ retry.pc = "calling"
    /\ pipe.pc = "idle"
    /\ retry' = RetrySettle(retry, ok, value, error)
    /\ UNCHANGED <<svc, pipe, eligVars, schedVars, stageVars>>

DelayElapses ==
    /\ retry.pc = "waiting"
    /\ pipe.pc = "idle"
    /\ retry' = RetryWake(retry)
    /\ UNCHANGED <<svc, pipe, eligVars, schedVars, stageVars>>

NextRetry ==
    \/ \E m \in {svc.maxRetries, 0, 1} : ExecuteWithRetry(m)
    \/ \E ok \in BOOLEAN, v \in Results, e \in Errors : OperationSettles(ok, v, e)
    \/ DelayElapses

SpecRetry == InitRetry /\ [][NextRetry]_vars

Failures(log) == {k \in DOMAIN log : ~log[k].ok}

\* C9: with maxRetries >= 1 executeWithRetry invokes the operation at most
\* maxRetries times, one attempt at a time; it returns the result of the
\* first successful attempt and makes no further attempt; after the k-th
\* failed attempt (k < maxRetries) it waits retryDelay * k; after maxRetries
\* failures it throws the error of the last attempt without waiting again.
C9_BoundedRetry ==
    (retry.pc # "idle" /\ retry.maxRetries >= 1) =>
        /\ retry.calls <= retry.maxRetries
        /\ retry.calls = retry.attempt
        /\ Len(retry.log) = IF retry.pc = "calling" THEN retry.calls - 1 ELSE retry.calls
        /\ \A k \in DOMAIN retry.log : k < Len(retry.log) => ~retry.log[k].ok
        /\ retry.waits = [k \in 1 .. Len(retry.waits) |-> svc.retryDelay * k]
        /\ Len(retry.waits) = IF retry.pc = "threw"
                              THEN retry.maxRetries - 1
                              ELSE IF retry.pc = "waiting"
                              THEN retry.calls
                              ELSE retry.calls - 1
        /\ (retry.pc = "returned" =>
              /\ retry.log[Len(retry.log)].ok
              /\ retry.out = retry.log[Len(retry.log)].value)
        /\ (retry.pc = "threw" =>
              /\ Failures(retry.log) = 1 .. retry.maxRetries
              /\ retry.out = retry.log[retry.maxRetries].value)
        /\ (retry.pc = "waiting" => Failures(retry.log) = 1 .. retry.calls)

\* three attempts failed with the last error E2 after waits of one and two
\* delays; or the third attempt succeeded
C9_Witness ==
    /\ retry.maxRetries = 3
    /\ Len(retry.waits) = 2
    /\ \/ retry.pc = "threw" /\ retry.out = "E2" /\ retry.log[1].value = "E1"
       \/ retry.pc = "returned" /\ retry.out = "R1" /\ retry.calls = 3

(***************************************************************************)
(* Part 4 - deduplicateArticles.  Strings are sequences of characters so   *)
(* that the template literal `${title}-${url}` is a concatenation.         *)
(***************************************************************************)

\* articles in one input list
MaxArticles == 3

Titles == {<<>>, <<"a">>, <<"-">>}
Urls == {<<>>, <<"-">>}
SourceNames == {"s1", "s2"}

Articles == [title : Titles, url : Urls, source : SourceNames]

ArticleLists == UNION {[1 .. n -> Articles] : n \in 0 .. MaxArticles}

\* `${article.title}-${article.url}`
DedupKey(article) == article.title \o <<"-">> \o article.url

\* the filter callback without seen.add(key)
RECURSIVE DedupFilter_NeverSeen(_, _)
DedupFilter_NeverSeen(articles, seen) ==
    IF articles = <<>> THEN <<>>
    ELSE IF DedupKey(Head(articles)) \in seen
    THEN DedupFilter_NeverSeen(Tail(articles), seen)
    ELSE <<Head(articles)>> \o DedupFilter_NeverSeen(Tail(articles), seen)

\* articles.filter(...) with the Set seen: an article is kept when its key
\* has not been seen, and its key is then added
RECURSIVE DedupFilter(_, _)
DedupFilter(articles, seen) ==
    IF articles = <<>> THEN <<>>
    ELSE IF DedupKey(Head(articles)) \in seen
    THEN DedupFilter(Tail(articles), seen)
    ELSE <<Head(articles)>> \o DedupFilter(Tail(articles), seen \cup {DedupKey(Head(articles))})

DeduplicateArticles(articles) == DedupFilter(articles, {})

InitDedup ==
    /\ dedup \in [pc : {"input"}, in : ArticleLists, out : {<<>>}, twice : {<<>>}]
    /\ EligIdle
    /\ SchedIdle
    /\ ContentIdle
    /\ EnrichIdle
    /\ PersistIdle
    /\ MoreIdle

Deduplicate ==
    /\ dedup.pc = "input"
    /\ dedup' = [dedup EXCEPT !.pc = "once", !.out = DeduplicateArticles(dedup.in)]
    /\ UNCHANGED <<eligVars, schedVars, contentVars, enrich, persist, moreVars>>

\* the output is passed to deduplicateArticles again
DeduplicateAgain ==
    /\ dedup.pc = "once"
    /\ dedup' = [dedup EXCEPT !.pc = "twice", !.twice = DeduplicateArticles(dedup.out)]
    /\ UNCHANGED <<eligVars, schedVars, contentVars, enrich, persist, moreVars>>

NextDedup == Deduplicate \/ DeduplicateAgain

SpecDedup == InitDedup /\ [][NextDedup]_vars

SamePair(x, y) == x.title = y.title /\ x.url = y.url

\* out consists of the elements of in at the strictly increasing positions f
Selects(f, in, out) ==
    /\ \A k \in DOMAIN out : out[k] = in[f[k]]
    /\ \A k, m \in DOMAIN out : k < m => f[k] < f[m]

\* C10: deduplicateArticles returns a sub-sequence of its input in which no
\* two articles have the same (title, url) pair, each kept article being the
\* first input occurrence of its pair, in original relative order; applying
\* it to its own output changes nothing.
C10_Deduplicate ==
    /\ dedup.pc \in {"once", "twice"} =>
          /\ \A k, m \in DOMAIN dedup.out : k # m => ~SamePair(dedup.out[k], dedup.out[m])
          /\ \E f \in [DOMAIN dedup.out -> DOMAIN dedup.in] :
                /\ Selects(f, dedup.in, dedup.out)
                /\ \A k \in DOMAIN dedup.out :
                      \A j \in 1 .. f[k] - 1 : ~SamePair(dedup.in[j], dedup.in[f[k]])
    /\ dedup.pc = "twice" => dedup.twice = dedup.out

\* the scenario [(A,u1),(A,u1),(B,u2)] with the two copies of A told apart
\* by their source: the first copy and B are kept
C10_Witness ==
    /\ dedup.pc = "twice"
    /\ dedup.in = << [title |-> <<"a">>, url |-> <<"-">>, source |-> "s1"],
                     [title |-> <<"a">>, url |-> <<"-">>, source |-> "s2"],
                     [title |-> <<"-">>, url |-> <<>>, source |-> "s2"] >>
    /\ dedup.out = << [title |-> <<"a">>, url |-> <<"-">>, source |-> "s1"],
                      [title |-> <<"-">>, url |-> <<>>, source |-> "s2"] >>

\* C11: deduplicateArticles drops an article only if an earlier article of
\* the input has both the same title and the same url; articles whose
\* (title, url) pairs differ are never treated as duplicates, whatever
\* characters their titles and urls contain.
C11_DropsOnlySamePair ==
    dedup.pc \in {"once", "twice"} =>
        \A j \in DOMAIN dedup.in :
            (\A i \in 1 .. j - 1 : ~SamePair(dedup.in[i], dedup.in[j]))
                => \E k \in DOMAIN dedup.out : dedup.out[k] = dedup.in[j]

(***************************************************************************)
(* Part 5 - executeFullPipeline and its callers (runDailyScrape from a     *)
(* cron firing or triggerJob, and POST /api/scrape/manual).  pipe.stages   *)
(* lists the stages the run entered; the counters record the calls made to *)
(* the scrape provider, the enrichment provider and the store.             *)
(***************************************************************************)

\* sources passed to one run
MaxSources == 2
\* items one scrape of a source returns
MaxItems == 1

Origins == {"cron", "trigger", "route"}

\* raw items of the scrape provider; valid stands for the item's fields
\* passing articleSchema
RawItems == {[title |-> <<"a">>, url |-> <<"-">>, valid |-> TRUE],
             [title |-> <<"-">>, url |-> <<>>, valid |-> FALSE]}

ScrapeResults == UNION {[1 .. n -> RawItems] : n \in 0 .. MaxItems}

SourceName(i) == IF i = 1 THEN "s1" ELSE "s2"

\* the fields of normalizeArticle the pipeline's control flow reads
NormalizeArticle(rawArticle, source) ==
    [title |-> rawArticle.title, url |-> rawArticle.url,
     source |-> SourceName(source), valid |-> rawArticle.valid]

CachePatterns == {"articles:*", "analytics:*", "categories:*", "sources:*"}

StatsFields == {"scraped", "processed", "saved", "duration"}

Min(a, b) == IF a <= b THEN a ELSE b

\* createBatches: slices [i, i + batchSize) for i = 0, batchSize, ...
RECURSIVE CreateBatchesFrom(_, _, _)
CreateBatchesFrom(array, batchSize, i) ==
    IF i < Len(array)
    THEN <<SubSeq(array, i + 1, Min(i + batchSize, Len(array)))>>
            \o CreateBatchesFrom(array, batchSize, i + batchSize)
    ELSE <<>>

CreateBatches(array, batchSize) == CreateBatchesFrom(array, batchSize, 0)

\* the run enters a stage (staying in the stage it is in adds nothing)
Enter(stages, stage) ==
    IF stages[Len(stages)] = stage THEN stages ELSE Append(stages, stage)

\* executeFullPipeline returned: runDailyScrape goes on to invalidate the
\* four key patterns, the manual route only logs the stats
Resolve(p, result) ==
    IF p.origin = "route"
    THEN [p EXCEPT !.pc = "done", !.result = result, !.stages = Enter(@, "Done")]
    ELSE [p EXCEPT !.pc = "invalidating", !.result = result,
                   !.invalidated = CachePatterns,
                   !.stages = Enter(@, "CacheInvalidating")]

\* the catch of executeFullPipeline: log, sendFailureAlert, rethrow
PipelineFails(p, error) ==
    [p EXCEPT !.pc = "failed", !.error = error, !.alerts = @ + 1,
              !.result = [state |-> "rejected", keys |-> {}, stats |-> <<>>],
              !.stages = Enter(@, "Failed")]

\* the return statement at the end of executeFullPipeline; elapsed time is
\* not measured here
Finish(p) ==
    Resolve(p, [state |-> "resolved", keys |-> {"success", "articles", "stats"},
                stats |-> [scraped |-> Len(p.raw), processed |-> Len(p.processed),
                           saved |-> Len(p.saved), duration |-> 0]])

ValidArticles(articles) == SelectSeq(articles, LAMBDA a : a.valid)

\* saveToAirtable up to the await of the first batch write; when
\* executeWithRetry makes no attempt its undefined result cannot be spread,
\* the catch logs the batch as failed and nothing is written
BeginPersist(p) ==
    LET q == [p EXCEPT !.stages = Enter(@, "Persisting")]
    IN  IF CreateBatches(ValidArticles(q.processed), 10) = <<>> \/ svc.maxRetries < 1
        THEN Finish(q)
        ELSE [q EXCEPT !.pc = "persisting", !.batch = 1, !.storeWrites = @ + 1]

\* calls to the enrichment provider started for a batch (one generateSummary
\* per article at least, unless executeWithRetry makes no attempt)
EnrichCallsFor(batch) == IF svc.maxRetries < 1 THEN 0 ELSE Len(batch)

\* processWithOpenAI up to the await of the first batch; with a batch size
\* below 1 the for loop of createBatches is followed step by step
BeginEnrich(p) ==
    IF svc.batchSize < 1
    THEN [p EXCEPT !.pc = "batching", !.i = 0, !.stages = Enter(@, "Enriching")]
    ELSE LET batches == CreateBatches(p.raw, svc.batchSize)
         IN  [p EXCEPT !.pc = "enriching", !.batch = 1,
                       !.enrichCalls = @ + EnrichCallsFor(batches[1]),
                       !.stages = Enter(@, "Enriching")]

\* scrapeArticles after its loop without the zero-article return of
\* executeFullPipeline
AfterScraping_NoEarlyReturn(p) ==
    LET q == [p EXCEPT !.raw = DeduplicateArticles(p.all),
                       !.stages = Enter(@, "Normalizing")]
    IN  IF Len(q.raw) = 0 THEN BeginPersist([q EXCEPT !.stages = Enter(@, "Enriching")])
        ELSE BeginEnrich(q)

\* scrapeArticles after its loop: deduplicate; executeFullPipeline returns
\* at once when no article is left, otherwise processWithOpenAI starts
AfterScraping(p) ==
    LET q == [p EXCEPT !.raw = DeduplicateArticles(p.all),
                       !.stages = Enter(@, "Normalizing")]
    IN  IF Len(q.raw) = 0
        THEN Resolve(q, [state |-> "resolved",
                         keys |-> {"success", "articles", "message"},
                         stats |-> <<>>])
        ELSE BeginEnrich(q)

\* the loop of scrapeArticles at source p.src: past the last source the
\* scraping is over; otherwise executeWithRetry is started for the source,
\* and when it makes no attempt its undefined result cannot be spread
ScrapeLoop(p) ==
    IF p.src > p.nSources
    THEN [pipe |-> AfterScraping(p), retry |-> NoRetry]
    ELSE IF svc.maxRetries < 1
    THEN [pipe |-> PipelineFails(p, "TypeError"), retry |-> RetryBegin(svc.maxRetries)]
    ELSE [pipe |-> [p EXCEPT !.scrapeCalls[p.src] = @ + 1,
                             !.stages = Enter(@, "Scraping")],
          retry |-> RetryBegin(svc.maxRetries)]

\* a source that exhausted its retries is skipped and the loop goes on
OnSourceExhausted_Skip(p, r) ==
    ScrapeLoop([p EXCEPT !.exhausted = p.src, !.error = r.out, !.src = @ + 1])

\* executeWithRetry threw for source p.src (r is the call that threw):
\* scrapeArticles logs and rethrows, and the run fails
OnSourceExhausted(p, r) ==
    [pipe |-> PipelineFails([p EXCEPT !.exhausted = p.src], r.out), retry |-> r]

InitPipe ==
    /\ \E re \in MaxRetriesEnv, be \in BatchSizeEnv :
          svc = ContentServiceConstructor(re, Undefined, be)
    /\ retry = NoRetry
    /\ pipe = NoPipe
    /\ EligIdle
    /\ SchedIdle
    /\ StageIdle

\* executeFullPipeline(sources) up to its first await
ExecuteFullPipeline(origin, n) ==
    /\ pipe.pc = "idle"
    /\ LET next == ScrapeLoop([NoPipe EXCEPT !.pc = "scraping", !.origin = origin,
                                            !.nSources = n, !.src = 1,
                                            !.scrapeCalls = [i \in 1 .. n |-> 0],
                                            !.stages = <<"Idle", "Scraping">>])
       IN  /\ pipe' = next.pipe
           /\ retry' = next.retry
    /\ UNCHANGED <<svc, eligVars, schedVars, stageVars>>

\* scrapeFromSource settled for the current source
ScrapeSettles(ok, items, error) ==
    /\ pipe.pc = "scraping"
    /\ retry.pc = "calling"
    /\ LET normalized == [k \in DOMAIN items |-> NormalizeArticle(items[k], pipe.src)]
           r == RetrySettle(retry, ok, normalized, error)
           next == IF r.pc = "returned"
                   THEN ScrapeLoop([pipe EXCEPT !.all = @ \o r.out, !.src = @ + 1,
                                               !.stages = Enter(@, "Normalizing")])
                   ELSE IF r.pc = "threw"
                   THEN OnSourceExhausted(pipe, r)
                   ELSE [pipe |-> pipe, retry |-> r]
       IN  /\ pipe' = next.pipe
           /\ retry' = next.retry
    /\ UNCHANGED <<svc, eligVars, schedVars, stageVars>>

\* the backoff delay of the current source's scrape elapsed
ScrapeDelayElapses ==
    /\ pipe.pc = "scraping"
    /\ retry.pc = "waiting"
    /\ retry' = RetryWake(retry)
    /\ pipe' = [pipe EXCEPT !.scrapeCalls[pipe.src] = @ + 1]
    /\ UNCHANGED <<svc, eligVars, schedVars, stageVars>>

\* what processArticleWithOpenAI returns: the article with its summary,
\* generated or cut from the content
Processed(article, outcome) ==
    [title |-> article.title, url |-> article.url, source |-> article.source,
     valid |-> article.valid, summary |-> outcome]

\* how processArticleWithOpenAI can settle for one article
EnrichOutcomes == {"enriched", "fallback", "rejected"}

\* how the promises of the enrichment batch under way can settle
BatchOutcomes ==
    IF pipe.pc = "enriching"
    THEN [DOMAIN CreateBatches(pipe.raw, svc.batchSize)[pipe.batch] -> EnrichOutcomes]
    ELSE {}

\* the settled promises of a batch that are fulfilled, in batch order
RECURSIVE FulfilledOf(_, _, _)
FulfilledOf(batch, outcome, k) ==
    IF k > Len(batch) THEN <<>>
    ELSE (IF outcome[k] = "rejected" THEN <<>> ELSE <<Processed(batch[k], outcome[k])>>)
             \o FulfilledOf(batch, outcome, k + 1)

\* Promise.allSettled of the current enrichment batch settled; an article
\* whose provider calls failed keeps the fallback summary, or is left out
\* when building the fallback threw
EnrichBatchSettles(outcome) ==
    /\ pipe.pc = "enriching"
    /\ LET batches == CreateBatches(pipe.raw, svc.batchSize)
           batch == batches[pipe.batch]
       IN  /\ outcome \in [DOMAIN batch -> EnrichOutcomes]
           /\ svc.maxRetries < 1 => \A k \in DOMAIN batch : outcome[k] # "enriched"
           /\ LET done == [pipe EXCEPT !.processed = @ \o FulfilledOf(batch, outcome, 1)]
              IN  pipe' = IF pipe.batch < Len(batches)
                          THEN [done EXCEPT !.batch = @ + 1,
                                            !.enrichCalls = @ + EnrichCallsFor(batches[pipe.batch + 1])]
                          ELSE BeginPersist(done)
    /\ UNCHANGED <<svc, retry, eligVars, schedVars, stageVars>>

\* the write of the current batch settled after its retries: the created
\* records are collected, or the failure is logged
PersistBatchSettles(ok) ==
    /\ pipe.pc = "persisting"
    /\ LET batches == CreateBatches(ValidArticles(pipe.processed), 10)
           done == IF ok THEN [pipe EXCEPT !.saved = @ \o batches[pipe.batch]] ELSE pipe
       IN  pipe' = IF pipe.batch < Len(batches)
                   THEN [done EXCEPT !.batch = @ + 1, !.storeWrites = @ + 1]
                   ELSE Finish(done)
    /\ UNCHANGED <<svc, retry, eligVars, schedVars, stageVars>>

\* the four cacheService.invalidate calls of runDailyScrape settled
InvalidateSettles ==
    /\ pipe.pc = "invalidating"
    /\ pipe' = [pipe EXCEPT !.pc = "done", !.stages = Enter(@, "Done")]
    /\ UNCHANGED <<svc, retry, eligVars, schedVars, stageVars>>

NextPipe ==
    \/ \E origin \in Origins, n \in 0 .. MaxSources : ExecuteFullPipeline(origin, n)
    \/ \E ok \in BOOLEAN, items \in ScrapeResults, e \in Errors : ScrapeSettles(ok, items, e)
    \/ ScrapeDelayElapses
    \/ \E outcome \in BatchOutcomes : EnrichBatchSettles(outcome)
    \/ \E ok \in BOOLEAN : PersistBatchSettles(ok)
    \/ InvalidateSettles

SpecPipe == InitPipe /\ [][NextPipe]_vars

Canon == <<"Idle", "Scraping", "Normalizing", "Enriching", "Persisting",
           "CacheInvalidating", "Done">>

IsPrefix(s, t) == Len(s) <= Len(t) /\ \A i \in DOMAIN s : s[i] = t[i]

\* the stages entered, without a final Failed
StagesBeforeFailure ==
    IF pipe.stages[Len(pipe.stages)] = "Failed"
    THEN SubSeq(pipe.stages, 1, Len(pipe.stages) - 1)
    ELSE pipe.stages

Occurrences(stage) == Cardinality({i \in DOMAIN pipe.stages : pipe.stages[i] = stage})

StageSuccessors ==
    {<<"Idle", "Scraping">>, <<"Scraping", "Normalizing">>, <<"Normalizing", "Scraping">>,
     <<"Normalizing", "Enriching">>, <<"Normalizing", "CacheInvalidating">>,
     <<"Enriching", "Persisting">>, <<"Persisting", "CacheInvalidating">>,
     <<"CacheInvalidating", "Done">>}

C6_SourceFailureFatal ==
    pipe.exhausted # 0 =>
        /\ pipe.pc = "failed"
        /\ pipe.result.state = "rejected"
        /\ pipe.scrapeCalls[pipe.exhausted] = svc.maxRetries
        /\ \A k \in DOMAIN pipe.scrapeCalls : k > pipe.exhausted => pipe.scrapeCalls[k] = 0
        /\ pipe.enrichCalls = 0
        /\ pipe.storeWrites = 0
        /\ pipe.alerts = 1
        /\ Len(retry.log) = svc.maxRetries
        /\ ~retry.log[svc.maxRetries].ok
        /\ pipe.error = retry.log[svc.maxRetries].value

\* the first of two sources failed three times, the last time with E2
C6_Witness ==
    /\ pipe.exhausted = 1
    /\ pipe.nSources = 2
    /\ svc.maxRetries = 3
    /\ pipe.pc = "failed"
    /\ pipe.error = "E2"
    /\ retry.log[1].value = "E1"

\* C7: every run of executeFullPipeline that resolves returns a result with
\* stats holding scraped, processed, saved and duration, also when the
\* sources yield zero articles.
C7_StatsAlways ==
    pipe.result.state = "resolved" =>
        /\ "stats" \in pipe.result.keys
        /\ DOMAIN pipe.result.stats = StatsFields

\* C8: every successful run of the full pipeline, whoever started it, is
\* followed by the invalidation of articles:*, analytics:*, categories:* and
\* sources:*.
C8_InvalidationFollows ==
    (pipe.pc = "done" /\ pipe.result.state = "resolved") => pipe.invalidated = CachePatterns

(***************************************************************************)
(* Part 6 - processWithOpenAI and processArticleWithOpenAI.  The two       *)
(* executeWithRetry calls of one article are taken by their outcome: both  *)
(* returned, or one of them threw its last error.                          *)
(***************************************************************************)

\* articles in one input list
MaxEnrichArticles == 3

\* article.content.substring(0, 200)
SummaryLimit == 200

\* article.content: a short string, a string longer than the limit, or a
\* truthy value that is not a string (normalizeArticle keeps whatever the
\* scraped item carries)
Contents ==
    {[type |-> "string", chars |-> <<"c">>],
     [type |-> "string", chars |-> [i \in 1 .. SummaryLimit + 1 |-> "x"]],
     [type |-> "number", chars |-> <<>>]}

ContentLists == UNION {[1 .. n -> Contents] : n \in 0 .. MaxEnrichArticles}

\* the articles of an input list are told apart by their titles, which give
\* the input position
EnrichInputs ==
    {[i \in DOMAIN c |-> [title |-> i, content |-> c[i]]] : c \in ContentLists}

EnrichBatchSizeEnv == {Undefined, "1", "2"}
EnrichRetriesEnv == {Undefined, "-1"}

\* what the two provider calls of one article did
ProviderOutcomes == {"ok", "Summary generation failed", "Keyword extraction failed"}

NoArticle == [title |-> 0, content |-> [type |-> "string", chars |-> <<>>],
              summary |-> <<>>, processingError |-> Undefined]

Substring(chars, n) == SubSeq(chars, 1, Min(Len(chars), n))

\* processArticleWithOpenAI(article): the settled promise.  When both calls
\* return, the article is returned with the generated summary; otherwise the
\* catch builds the fallback from article.content.substring, which is not a
\* function when the content is not a string, and then the promise rejects.
\* With maxRetries < 1 executeWithRetry returns undefined without a provider
\* call and spreading the undefined keywords throws inside the try.
ProcessArticleWithOpenAI(article, title, outcome) ==
    LET error == IF svc.maxRetries < 1 THEN "TypeError" ELSE outcome
    IN  IF error = "ok"
        THEN [status |-> "fulfilled",
              value |-> [title |-> title, content |-> article.content,
                         summary |-> <<"s", "u", "m">>, processingError |-> Undefined]]
        ELSE IF article.content.type = "string"
        THEN [status |-> "fulfilled",
              value |-> [title |-> title, content |-> article.content,
                         summary |-> Substring(article.content.chars, SummaryLimit)
                                         \o <<".", ".", ".">>,
                         processingError |-> error]]
        ELSE [status |-> "rejected", value |-> NoArticle]

RECURSIVE Offset(_, _)
Offset(batches, b) == IF b <= 1 THEN 0 ELSE Offset(batches, b - 1) + Len(batches[b - 1])

\* input positions of the articles of batch b
BatchPositions(batches, b) ==
    IF b \in DOMAIN batches
    THEN Offset(batches, b) + 1 .. Offset(batches, b) + Len(batches[b])
    ELSE {}

EnrichBatches == CreateBatches(enrich.in, svc.batchSize)

\* batch.map(article => this.processArticleWithOpenAI(article))
StartBatch(e, batches, b) ==
    [e EXCEPT !.pc = "batch", !.batch = b,
              !.status = [i \in DOMAIN e.in |->
                             IF i \in BatchPositions(batches, b) THEN "running"
                             ELSE e.status[i]]]

\* the forEach over batchResults: fulfilled values are pushed in batch order
RECURSIVE Fulfilled(_, _, _)
Fulfilled(results, from, to) ==
    IF from > to THEN <<>>
    ELSE (IF results[from].status = "fulfilled" THEN <<results[from].value>> ELSE <<>>)
             \o Fulfilled(results, from + 1, to)

\* after Promise.allSettled of batch e.batch, with the delay also taken
\* after the last batch
AfterBatch_DelayAlways(e, batches) ==
    LET first == Offset(batches, e.batch) + 1
        last == Offset(batches, e.batch) + Len(batches[e.batch])
        pushed == [e EXCEPT !.out = @ \o Fulfilled(e.results, first, last)]
    IN  [pushed EXCEPT !.pc = "delay", !.delays = @ + 1]

\* after Promise.allSettled of batch e.batch: collect, then delay(1000)
\* unless this was the last batch
AfterBatch(e, batches) ==
    LET first == Offset(batches, e.batch) + 1
        last == Offset(batches, e.batch) + Len(batches[e.batch])
        pushed == [e EXCEPT !.out = @ \o Fulfilled(e.results, first, last)]
    IN  IF e.batch < Len(batches)
        THEN [pushed EXCEPT !.pc = "delay", !.delays = @ + 1]
        ELSE [pushed EXCEPT !.pc = "returned"]

InitEnrich ==
    /\ \E re \in EnrichRetriesEnv, be \in EnrichBatchSizeEnv :
          svc = ContentServiceConstructor(re, Undefined, be)
    /\ retry = NoRetry
    /\ pipe = NoPipe
    /\ \E in \in EnrichInputs :
          enrich = [NoEnrich EXCEPT !.pc = "input",
                       !.in = in,
                       !.outcomes = [i \in DOMAIN in |-> "none"],
                       !.status = [i \in DOMAIN in |-> "notStarted"],
                       !.results = [i \in DOMAIN in |-> [status |-> "pending", value |-> NoArticle]]]
    /\ EligIdle
    /\ SchedIdle
    /\ DedupIdle
    /\ PersistIdle
    /\ MoreIdle

\* processWithOpenAI(articles) up to its first await
ProcessWithOpenAI ==
    /\ enrich.pc = "input"
    /\ enrich' = IF EnrichBatches = <<>> THEN [enrich EXCEPT !.pc = "returned"]
                 ELSE StartBatch(enrich, EnrichBatches, 1)
    /\ UNCHANGED <<eligVars, schedVars, contentVars, dedup, persist, moreVars>>

\* processArticleWithOpenAI of input position i settles; when it is the
\* last one of its batch, Promise.allSettled resolves and the loop goes on
EnrichArticleSettles(i, outcome) ==
    /\ enrich.pc = "batch"
    /\ enrich.status[i] = "running"
    /\ LET result == ProcessArticleWithOpenAI(enrich.in[i], enrich.in[i].title, outcome)
           settled == [enrich EXCEPT !.status[i] = "settled", !.results[i] = result,
                                     !.outcomes[i] = outcome]
       IN  enrich' = IF \A j \in BatchPositions(EnrichBatches, enrich.batch) :
                             settled.status[j] = "settled"
                     THEN AfterBatch(settled, EnrichBatches)
                     ELSE settled
    /\ UNCHANGED <<eligVars, schedVars, contentVars, dedup, persist, moreVars>>

\* this.delay(1000) between two batches elapsed
EnrichDelayElapses ==
    /\ enrich.pc = "delay"
    /\ enrich' = IF enrich.batch < Len(EnrichBatches)
                 THEN StartBatch(enrich, EnrichBatches, enrich.batch + 1)
                 ELSE [enrich EXCEPT !.pc = "returned"]
    /\ UNCHANGED <<eligVars, schedVars, contentVars, dedup, persist, moreVars>>

NextEnrich ==
    \/ ProcessWithOpenAI
    \/ \E i \in DOMAIN enrich.in, outcome \in ProviderOutcomes : EnrichArticleSettles(i, outcome)
    \/ EnrichDelayElapses

SpecEnrich == InitEnrich /\ [][NextEnrich]_vars

\* C12: processWithOpenAI returns exactly one output article per input
\* article, in input order, the output of an article being one that this
\* article and its own provider calls can give; an article whose provider
\* calls failed has processingError set and its content, cut at the limit,
\* as the summary.
C12_OnePerInput ==
    enrich.pc = "returned" =>
        /\ Len(enrich.out) = Len(enrich.in)
        /\ \A i \in DOMAIN enrich.out :
              /\ i \in DOMAIN enrich.in
              /\ enrich.out[i].title = enrich.in[i].title
              /\ \E o \in ProviderOutcomes :
                    enrich.out[i] =
                        ProcessArticleWithOpenAI(enrich.in[i], enrich.in[i].title, o).value
              /\ enrich.outcomes[i] # "ok" =>
                    /\ enrich.out[i].processingError # Undefined
                    /\ IsPrefix(Substring(enrich.in[i].content.chars, SummaryLimit),
                                enrich.out[i].summary)

ElapsedDelays == enrich.delays - (IF enrich.pc = "delay" THEN 1 ELSE 0)

Started(i) == enrich.status[i] # "notStarted"

RECURSIVE Flatten(_)
Flatten(batches) == IF batches = <<>> THEN <<>> ELSE Head(batches) \o Flatten(Tail(batches))

\* C13: processWithOpenAI splits the articles into consecutive batches of at
\* most batchSize articles; the calls of one batch are started together, no
\* call of batch k+1 starts before every call of batch k has settled and
\* the delay after batch k has elapsed, and a run that returned took
\* exactly numBatches - 1 delays.
C13_BatchesInTurn ==
    enrich.pc # "idle" =>
        /\ Flatten(EnrichBatches) = enrich.in
        /\ \A b \in DOMAIN EnrichBatches :
              /\ Len(EnrichBatches[b]) >= 1
              /\ Len(EnrichBatches[b]) <= svc.batchSize
              /\ \A i, j \in BatchPositions(EnrichBatches, b) : Started(i) <=> Started(j)
              /\ \A i \in BatchPositions(EnrichBatches, b) :
                    (b > 1 /\ Started(i)) =>
                        /\ \A j \in BatchPositions(EnrichBatches, b - 1) :
                              enrich.status[j] = "settled"
                        /\ ElapsedDelays >= b - 1
        /\ enrich.pc = "batch" => enrich.delays = enrich.batch - 1
        /\ enrich.pc = "returned" =>
              enrich.delays = (IF EnrichBatches = <<>> THEN 0 ELSE Len(EnrichBatches) - 1)

\* three articles in batches of two: the second batch is under way after
\* one delay, the first batch having settled
C13_Witness ==
    /\ svc.batchSize = 2
    /\ Len(enrich.in) = 3
    /\ enrich.pc = "batch"
    /\ enrich.batch = 2
    /\ enrich.delays = 1
    /\ enrich.status = <<"settled", "settled", "running">>

(***************************************************************************)
(* Part 7 - saveToAirtable: validation, batches of ten, one                *)
(* executeWithRetry per batch around airtableService.createArticles        *)
(***************************************************************************)

\* articles in one input list
MaxSaveArticles == 12

\* invalid articles in one input list
MaxInvalid == 2

\* this.createBatches(validArticles, 10)
AirtableBatchLimit == 10

SaveRetriesEnv == {Undefined, "-1", "1"}

\* input lists: article i is told by its position, and passes
\* validateArticle or not
SaveInputs ==
    {[i \in 1 .. n |-> [id |-> i, valid |-> i \notin bad]] :
        <<n, bad>> \in {<<m, b>> \in (0 .. MaxSaveArticles) \X SUBSET (1 .. MaxSaveArticles) :
                           b \subseteq 1 .. m /\ Cardinality(b) <= MaxInvalid}}

SaveBatches == CreateBatches(ValidArticles(persist.in), AirtableBatchLimit)

\* the return of saveToAirtable; the failed count is only logged
SaveReturns(q) ==
    [q EXCEPT !.pc = "returned",
              !.failedCount = Len(ValidArticles(q.in)) - Len(q.saved)]

\* the loop of saveToAirtable at batch q.batch: executeWithRetry is started
\* for the batch; when it makes no attempt its undefined result cannot be
\* spread into push, the catch logs the batch as failed and the loop goes on
RECURSIVE SaveLoop(_, _)
SaveLoop(q, batches) ==
    IF q.batch > Len(batches)
    THEN [persist |-> SaveReturns(q), retry |-> NoRetry]
    ELSE IF svc.maxRetries < 1
    THEN SaveLoop([q EXCEPT !.failed = @ \cup {q.batch}, !.batch = @ + 1], batches)
    ELSE [persist |-> [q EXCEPT !.pc = "writing", !.submitted = Append(@, q.batch)],
          retry |-> RetryBegin(svc.maxRetries)]

\* the catch around the write of batch q.batch: the error is logged, and
\* no write of a single record follows
OnBatchFailed(q, batches) ==
    SaveLoop([q EXCEPT !.failed = @ \cup {q.batch}, !.batch = @ + 1], batches)

InitPersist ==
    /\ \E re \in SaveRetriesEnv : svc = ContentServiceConstructor(re, Undefined, Undefined)
    /\ retry = NoRetry
    /\ pipe = NoPipe
    /\ \E in \in SaveInputs : persist = [NoPersist EXCEPT !.pc = "input", !.in = in]
    /\ EligIdle
    /\ SchedIdle
    /\ DedupIdle
    /\ EnrichIdle
    /\ MoreIdle

\* saveToAirtable(articles) up to its first await
SaveToAirtable ==
    /\ persist.pc = "input"
    /\ LET next == SaveLoop([persist EXCEPT !.batch = 1], SaveBatches)
       IN  /\ persist' = next.persist
           /\ retry' = next.retry
    /\ UNCHANGED <<svc, pipe, eligVars, schedVars, dedup, enrich, moreVars>>

\* airtableService.createArticles(batch) settled
StoreWriteSettles(ok, error) ==
    /\ persist.pc = "writing"
    /\ retry.pc = "calling"
    /\ LET r == RetrySettle(retry, ok, SaveBatches[persist.batch], error)
           next == IF r.pc = "returned"
                   THEN SaveLoop([persist EXCEPT !.saved = @ \o r.out, !.batch = @ + 1],
                                 SaveBatches)
                   ELSE IF r.pc = "threw"
                   THEN OnBatchFailed(persist, SaveBatches)
                   ELSE [persist |-> persist, retry |-> r]
       IN  /\ persist' = next.persist
           /\ retry' = next.retry
    /\ UNCHANGED <<svc, pipe, eligVars, schedVars, dedup, enrich, moreVars>>

\* the backoff delay of the current batch write elapsed: the batch is
\* passed to createArticles again
StoreDelayElapses ==
    /\ persist.pc = "writing"
    /\ retry.pc = "waiting"
    /\ retry' = RetryWake(retry)
    /\ persist' = [persist EXCEPT !.submitted = Append(@, persist.batch)]
    /\ UNCHANGED <<svc, pipe, eligVars, schedVars, dedup, enrich, moreVars>>

NextPersist ==
    \/ SaveToAirtable
    \/ \E ok \in BOOLEAN, e \in Errors : StoreWriteSettles(ok, e)
    \/ StoreDelayElapses

SpecPersist == InitPersist /\ [][NextPersist]_vars

Range(f) == {f[k] : k \in DOMAIN f}

\* the write of batch b has finished: it succeeded or finally failed
Finished(b) == b < persist.batch

\* C14: saveToAirtable never passes to the store an article that fails
\* validateArticle; the valid articles, in input order, make up the batches
\* of at most 10 articles; batch k+1 is submitted only after the write of
\* batch k has finished; and when the call has returned every batch has
\* been submitted to the store.
C14_ValidInBatches ==
    persist.pc # "idle" =>
        /\ \A k \in DOMAIN persist.submitted :
              /\ persist.submitted[k] \in DOMAIN SaveBatches
              /\ \A m \in DOMAIN SaveBatches[persist.submitted[k]] :
                    SaveBatches[persist.submitted[k]][m].valid
              /\ \A b \in 1 .. persist.submitted[k] - 1 : Finished(b)
        /\ Flatten(SaveBatches) = ValidArticles(persist.in)
        /\ \A b \in DOMAIN SaveBatches :
              Len(SaveBatches[b]) >= 1 /\ Len(SaveBatches[b]) <= AirtableBatchLimit
        /\ \A k, m \in DOMAIN persist.submitted :
              k < m => persist.submitted[k] <= persist.submitted[m]
        /\ persist.pc = "returned" => Range(persist.submitted) = DOMAIN SaveBatches

\* C15: when saveToAirtable has returned, one individual write has been
\* attempted for each article of every batch that was submitted to the
\* store and whose batch write failed.
C15_FallbackPerRecord ==
    persist.pc = "returned" =>
        persist.single =
            Cardinality(UNION {BatchPositions(SaveBatches, b) :
                                  b \in persist.failed \cap Range(persist.submitted)})

(***************************************************************************)
(* Part 8 - getStatus (scheduler.js): what the status object shows of the  *)
(* alert channels, on two schedulers whose environments are compared       *)
(***************************************************************************)

\* values of ALERT_WEBHOOK_URL and SLACK_WEBHOOK_URL: unset, empty, or one of
\* two URLs that carry a secret token
SecretUrlEnv == {Undefined, "", "https://hooks.example/T0/secretA",
                 "https://hooks.example/T0/secretB"}

\* JavaScript truthiness of the value of an environment variable
Truthy(v) == v # Undefined /\ v # ""

StatusEnvs ==
    [NODE_ENV            : {Undefined, "production"},
     ENABLE_SCHEDULER    : {"true", "false"},
     ALERT_WEBHOOK_URL   : SecretUrlEnv,
     ALERT_EMAIL_ENABLED : {Undefined, "true"},
     SLACK_WEBHOOK_URL   : SecretUrlEnv]

\* getSchedulerConfig: the schedules with no CRON_* variable set
DefaultSchedules(nodeEnv) ==
    [dailyScrape  |-> IF nodeEnv = "development" THEN "*/2 * * * *" ELSE "0 6 * * *",
     cleanup      |-> IF nodeEnv = "development" THEN "*/5 * * * *" ELSE "0 2 * * 0",
     cacheCleanup |-> IF nodeEnv = "development" THEN "* * * * *" ELSE "0 * * * *"]

\* getSchedulerConfig: the alerts entry of the configuration
AlertsConfig(e) ==
    [webhookUrl   |-> e.ALERT_WEBHOOK_URL,
     emailEnabled |-> e.ALERT_EMAIL_ENABLED = "true",
     slackEnabled |-> IF Truthy(e.SLACK_WEBHOOK_URL) THEN TRUE ELSE FALSE]

\* this.config of a scheduler constructed in environment e (no replica id,
\* no dedicated instance, no SCHEDULER_TIMEZONE)
FullSchedulerConfig(e) ==
    [enabled     |-> ShouldRunScheduler(e.ENABLE_SCHEDULER, Undefined, Undefined,
                                        NodeEnvOf(e)),
     environment |-> NodeEnvOf(e),
     timezone    |-> "UTC",
     schedules   |-> DefaultSchedules(NodeEnvOf(e)),
     alerts      |-> AlertsConfig(e)]

JobDescriptions ==
    [dailyScrape  |-> "Daily content scraping job",
     cleanup      |-> "Weekly cleanup job",
     cacheCleanup |-> "Hourly cache cleanup job"]

\* getStatus passing the alerts entry of the configuration on as it is
AlertsStatus_Raw(alerts) == alerts

\* getStatus: the alerts entry of the status object
AlertsStatus(alerts) ==
    [webhookConfigured |-> Truthy(alerts.webhookUrl),
     emailEnabled      |-> alerts.emailEnabled,
     slackEnabled      |-> alerts.slackEnabled]

\* getStatus of a scheduler with configuration cfg; registered says whether
\* initialize has created and started the jobs.  The cron tasks of
\* node-cron 3 have no getStatus method, so every job reads 'unknown'.
GetStatus(cfg, registered) ==
    [enabled     |-> cfg.enabled,
     isRunning   |-> registered,
     environment |-> cfg.environment,
     timezone    |-> cfg.timezone,
     jobs        |-> IF registered
                     THEN [i \in 1 .. Len(JobOrder) |->
                             [name        |-> JobOrder[i],
                              schedule    |-> cfg.schedules[JobOrder[i]],
                              description |-> JobDescriptions[JobOrder[i]],
                              isRunning   |-> "unknown"]]
                     ELSE <<>>,
     config      |-> [schedules |-> cfg.schedules,
                      alerts    |-> AlertsStatus(cfg.alerts)]]

Schedulers == {1, 2}

\* the two schedulers agree on NODE_ENV and ENABLE_SCHEDULER; the alert
\* variables of each are free
InitStatus ==
    /\ \E a \in StatusEnvs, b \in StatusEnvs :
          /\ b.NODE_ENV = a.NODE_ENV
          /\ b.ENABLE_SCHEDULER = a.ENABLE_SCHEDULER
          /\ status = [env |-> <<a, b>>, registered |-> <<FALSE, FALSE>>,
                       out |-> <<<<>>, <<>>>>]
    /\ EligIdle
    /\ SchedIdle
    /\ ContentIdle
    /\ DedupIdle /\ EnrichIdle /\ PersistIdle
    /\ CacheIdle /\ NormIdle /\ TransferIdle /\ ProcIdle

statusOthers == <<eligVars, schedVars, contentVars, dedup, enrich, persist,
                  cache, norm, transfer, proc>>

\* initialize() of scheduler k with every collaborator present
StatusInitialize(k) ==
    /\ FullSchedulerConfig(status.env[k]).enabled
    /\ ~status.registered[k]
    /\ status' = [status EXCEPT !.registered[k] = TRUE]
    /\ UNCHANGED statusOthers

\* getStatus() of scheduler k
GetStatusCall(k) ==
    /\ status.out[k] = <<>>
    /\ status' = [status EXCEPT !.out[k] =
                     <<GetStatus(FullSchedulerConfig(status.env[k]), status.registered[k])>>]
    /\ UNCHANGED statusOthers

NextStatus ==
    \/ \E k \in Schedulers : StatusInitialize(k)
    \/ \E k \in Schedulers : GetStatusCall(k)

SpecStatus == InitStatus /\ [][NextStatus]_vars

\* the environments differ at most in the values of a non-empty
\* ALERT_WEBHOOK_URL and of a non-empty SLACK_WEBHOOK_URL
SameButSecrets(a, b) ==
    /\ a.NODE_ENV = b.NODE_ENV
    /\ a.ENABLE_SCHEDULER = b.ENABLE_SCHEDULER
    /\ a.ALERT_EMAIL_ENABLED = b.ALERT_EMAIL_ENABLED
    /\ \/ a.ALERT_WEBHOOK_URL = b.ALERT_WEBHOOK_URL
       \/ Truthy(a.ALERT_WEBHOOK_URL) /\ Truthy(b.ALERT_WEBHOOK_URL)
    /\ \/ a.SLACK_WEBHOOK_URL = b.SLACK_WEBHOOK_URL
       \/ Truthy(a.SLACK_WEBHOOK_URL) /\ Truthy(b.SLACK_WEBHOOK_URL)

\* C21: getStatus shows of the alert channels only the three booleans
\* webhookConfigured, emailEnabled and slackEnabled, and two schedulers in
\* the same state whose environments differ only in the values of non-empty
\* ALERT_WEBHOOK_URL / SLACK_WEBHOOK_URL return identical status objects.
C21_StatusHidesSecrets ==
    /\ \A k \in Schedulers :
          status.out[k] # <<>> =>
             status.out[k][1].config.alerts \in
                [webhookConfigured : BOOLEAN, emailEnabled : BOOLEAN,
                 slackEnabled : BOOLEAN]
    /\ ( /\ status.out[1] # <<>>
         /\ status.out[2] # <<>>
         /\ status.out[1][1].isRunning = status.out[2][1].isRunning
         /\ SameButSecrets(status.env[1], status.env[2]) )
       => status.out[1] = status.out[2]

\* both schedulers run with different webhook and Slack URLs, and both
\* have reported their status
C21_Witness ==
    /\ status.out[1] # <<>>
    /\ status.out[2] # <<>>
    /\ status.out[1][1].isRunning
    /\ status.out[2][1].isRunning
    /\ Truthy(status.env[1].ALERT_WEBHOOK_URL)
    /\ Truthy(status.env[2].ALERT_WEBHOOK_URL)
    /\ status.env[1].ALERT_WEBHOOK_URL # status.env[2].ALERT_WEBHOOK_URL
    /\ Truthy(status.env[1].SLACK_WEBHOOK_URL)
    /\ status.env[1].SLACK_WEBHOOK_URL # status.env[2].SLACK_WEBHOOK_URL
    /\ Truthy(status.env[2].SLACK_WEBHOOK_URL)
    /\ status.out[1] = status.out[2]

(***************************************************************************)
(* Part 9 - CacheService (part_010), the categories route (part_011) that  *)
(* reads through it, and the invalidations of runDailyScrape and           *)
(* clearOldCacheEntries (scheduler.js).  A value is known by the version   *)
(* of the stored data it was read from; a key is the list of its           *)
(* colon-separated segments and a pattern 'a:b:*' the list of the segments *)
(* in front of the star.                                                   *)
(***************************************************************************)

\* the requests to GET /api/categories followed in one behaviour
Readers == {"first", "second"}

CategoriesKey == <<"categories", "all">>

CacheKeys == {CategoriesKey, <<"analytics", "7d">>}

\* the patterns runDailyScrape invalidates, and those of clearOldCacheEntries
InvalidationPatterns ==
    [dailyScrape  |-> <<<<"articles">>, <<"analytics">>, <<"categories">>, <<"sources">>>>,
     cacheCleanup |-> <<<<"analytics">>, <<"articles", "stats">>>>]

PatternIndexes == DOMAIN InvalidationPatterns.dailyScrape

\* client.keys(pattern): the key starts with the text in front of the star
Matches(pattern, key) ==
    /\ Len(key) >= Len(pattern)
    /\ SubSeq(key, 1, Len(pattern)) = pattern

\* JSON.stringify / JSON.parse of a cached value
Stringify(value) == [json |-> value]
Parse(text) == text.json

\* an entry the store does not hold
Absent == [json |-> -1]

\* get(key) while the client is usable: cached ? JSON.parse(cached) : null,
\* null being the empty list here
CacheGetResult(entry) == IF entry = Absent THEN <<>> ELSE <<Parse(entry)>>

\* invalidate letting the error of the client reach its caller
InvalidateFailed_Rethrow == "throws"

\* invalidate: what it returns when the client call fails (the catch)
InvalidateFailed == "false"

NoReader == [pc |-> "idle", data |-> <<>>, late |-> FALSE, hit |-> FALSE,
             got |-> <<>>, put |-> <<>>]

InitCache ==
    /\ \E c \in BOOLEAN, s \in [CacheKeys -> {Absent, Stringify(0)}] :
          cache = [connected |-> c, store |-> s, db |-> 0,
                   reader |-> [r \in Readers |-> NoReader],
                   job |-> [kind |-> Undefined, pc |-> "idle"],
                   inval |-> <<>>]
    /\ EligIdle
    /\ SchedIdle
    /\ ContentIdle
    /\ DedupIdle /\ EnrichIdle /\ PersistIdle
    /\ StatusIdle /\ NormIdle /\ TransferIdle /\ ProcIdle

cacheOthers == <<eligVars, schedVars, contentVars, dedup, enrich, persist,
                 status, norm, transfer, proc>>

\* the 'connect' and 'error' events of the redis client
ClientEvent(up) ==
    /\ cache.connected # up
    /\ cache' = [cache EXCEPT !.connected = up]
    /\ UNCHANGED cacheOthers

\* the invalidation of a successful dailyScrape has completed
InvalidatedAfterRun ==
    /\ cache.job.kind = "dailyScrape"
    /\ cache.job.pc = "done"

\* ... and each of its four invalidations has returned true
InvalidationSucceeded ==
    /\ InvalidatedAfterRun
    /\ \A i \in DOMAIN cache.inval : cache.inval[i].pc = "true"

\* the route's cacheService.get('categories:all'), ok saying whether
\* client.get succeeds; then the hit is answered, a miss goes on to the store
RouteGet(r, ok) ==
    LET usable == cache.connected /\ ok
        result == IF usable THEN CacheGetResult(cache.store[CategoriesKey]) ELSE <<>>
    IN /\ cache.reader[r].pc = "idle"
       /\ cache' = [cache EXCEPT !.reader[r] =
                       [pc   |-> IF result = <<>> THEN "fetching" ELSE "done",
                        data |-> result,
                        late |-> InvalidationSucceeded,
                        hit  |-> result # <<>>,
                        got  |-> <<[failed |-> ~usable, result |-> result]>>,
                        put  |-> <<>>]]
       /\ UNCHANGED cacheOthers

\* airtableService.getCategories() of the route settles: it read the data
\* as they are now, or it throws and the route answers 500
RouteFetch(r, ok) ==
    /\ cache.reader[r].pc = "fetching"
    /\ cache' = [cache EXCEPT !.reader[r].pc = IF ok THEN "storing" ELSE "failed",
                              !.reader[r].data = IF ok THEN <<cache.db>> ELSE <<>>]
    /\ UNCHANGED cacheOthers

\* the route's cacheService.set('categories:all', categories, ttl), then
\* the answer
RouteSet(r, ok) ==
    LET usable == cache.connected /\ ok
    IN /\ cache.reader[r].pc = "storing"
       /\ cache' = [cache EXCEPT
                       !.store[CategoriesKey] =
                           IF usable THEN Stringify(cache.reader[r].data[1]) ELSE @,
                       !.reader[r].pc = "done",
                       !.reader[r].put = <<[failed |-> ~usable, result |-> usable]>>]
       /\ UNCHANGED cacheOthers

\* Promise.all over invalidate(pattern): every call runs to its first await
\* in the same step; a call made while the client is not connected has
\* returned false
StartInvalidations(kind) ==
    [i \in 1 .. Len(InvalidationPatterns[kind]) |->
        IF cache.connected
        THEN [pc |-> "keys", keys |-> {}, failed |-> FALSE]
        ELSE [pc |-> "false", keys |-> {}, failed |-> TRUE]]

\* a job starts: runDailyScrape awaits the pipeline, clearOldCacheEntries
\* invalidates at once
JobStart(kind) ==
    /\ cache.job.pc = "idle"
    /\ cache' = [cache EXCEPT
                    !.job = [kind |-> kind,
                             pc   |-> IF kind = "dailyScrape" THEN "pipeline"
                                      ELSE "invalidating"],
                    !.inval = IF kind = "dailyScrape" THEN <<>>
                              ELSE StartInvalidations(kind)]
    /\ UNCHANGED cacheOthers

\* executeFullPipeline of runDailyScrape settles: it has written new
\* articles and the invalidations start, or it throws and the job fails
PipelineSettles(ok) ==
    /\ cache.job.pc = "pipeline"
    /\ cache' = [cache EXCEPT
                    !.db = IF ok THEN @ + 1 ELSE @,
                    !.job.pc = IF ok THEN "invalidating" ELSE "failed",
                    !.inval = IF ok THEN StartInvalidations("dailyScrape") ELSE <<>>]
    /\ UNCHANGED cacheOthers

\* client.keys(pattern) of invalidation i settles
InvalidateKeys(i, ok) ==
    LET pattern == InvalidationPatterns[cache.job.kind][i]
        keys == {k \in CacheKeys : cache.store[k] # Absent /\ Matches(pattern, k)}
    IN /\ cache.job.pc \in {"invalidating", "failed"}
       /\ i \in DOMAIN cache.inval
       /\ cache.inval[i].pc = "keys"
       /\ cache' = [cache EXCEPT !.inval[i] =
                       IF ~ok THEN [pc |-> InvalidateFailed, keys |-> {}, failed |-> TRUE]
                       ELSE IF keys # {} THEN [pc |-> "del", keys |-> keys, failed |-> FALSE]
                       ELSE [pc |-> "true", keys |-> {}, failed |-> FALSE]]
       /\ UNCHANGED cacheOthers

\* client.del(keys) of invalidation i settles
InvalidateDel(i, ok) ==
    /\ cache.job.pc \in {"invalidating", "failed"}
    /\ i \in DOMAIN cache.inval
    /\ cache.inval[i].pc = "del"
    /\ cache' = [cache EXCEPT
                    !.store = IF ok
                              THEN [k \in CacheKeys |->
                                      IF k \in cache.inval[i].keys THEN Absent
                                      ELSE cache.store[k]]
                              ELSE @,
                    !.inval[i] = IF ok THEN [pc |-> "true", keys |-> @.keys, failed |-> FALSE]
                                 ELSE [pc |-> InvalidateFailed, keys |-> {}, failed |-> TRUE]]
    /\ UNCHANGED cacheOthers

\* Promise.all settles: rejected as soon as one invalidation has thrown,
\* fulfilled when all have returned; the job then logs and returns
JobResume ==
    /\ cache.job.pc = "invalidating"
    /\ \/ /\ \E i \in DOMAIN cache.inval : cache.inval[i].pc = "throws"
          /\ cache' = [cache EXCEPT !.job.pc = "failed"]
       \/ /\ \A i \in DOMAIN cache.inval : cache.inval[i].pc \in {"true", "false"}
          /\ cache' = [cache EXCEPT !.job.pc = "done"]
    /\ UNCHANGED cacheOthers

NextCache ==
    \/ \E up \in BOOLEAN : ClientEvent(up)
    \/ \E r \in Readers, ok \in BOOLEAN : RouteGet(r, ok)
    \/ \E r \in Readers, ok \in BOOLEAN : RouteFetch(r, ok)
    \/ \E r \in Readers, ok \in BOOLEAN : RouteSet(r, ok)
    \/ \E kind \in {"dailyScrape", "cacheCleanup"} : JobStart(kind)
    \/ \E ok \in BOOLEAN : PipelineSettles(ok)
    \/ \E i \in PatternIndexes, ok \in BOOLEAN : InvalidateKeys(i, ok)
    \/ \E i \in PatternIndexes, ok \in BOOLEAN : InvalidateDel(i, ok)
    \/ JobResume

SpecCache == InitCache /\ [][NextCache]_vars

\* C22: get, set and invalidate never throw; a call made while the cache is
\* not connected, or whose client operation fails, returns null (get) or
\* false (set, invalidate); a failed invalidation never fails the job that
\* requested it, which fails only if its pipeline threw, and every pattern
\* of the job is invalidated on its own.
C22_CacheNeverThrows ==
    /\ \A r \in Readers :
          /\ cache.reader[r].got # <<>> /\ cache.reader[r].got[1].failed
                => cache.reader[r].got[1].result = <<>>
          /\ cache.reader[r].put # <<>> /\ cache.reader[r].put[1].failed
                => cache.reader[r].put[1].result = FALSE
    /\ \A i \in DOMAIN cache.inval :
          /\ cache.inval[i].pc \in {"keys", "del", "true", "false"}
          /\ cache.inval[i].failed <=> cache.inval[i].pc = "false"
    /\ cache.job.pc = "failed" => cache.job.kind = "dailyScrape" /\ cache.inval = <<>>
    /\ cache.job.pc \in {"invalidating", "done"}
          => DOMAIN cache.inval = DOMAIN InvalidationPatterns[cache.job.kind]

\* the daily scrape is done although its invalidation of analytics:* failed,
\* and its invalidation of categories:* has deleted categories:all
C22_Witness ==
    /\ InvalidatedAfterRun
    /\ cache.inval[2].pc = "false"
    /\ cache.inval[3].pc = "true"
    /\ cache.inval[3].keys = {CategoriesKey}
    /\ \E r \in Readers : cache.reader[r].got # <<>> /\ cache.reader[r].got[1].failed

\* C28: once the invalidation after a successful dailyScrape has completed
\* (all four patterns invalidated), every later hit on categories:all
\* returns data read after the run's writes.
C28_NoStaleHitAfterRun ==
    \A r \in Readers :
        cache.reader[r].hit /\ cache.reader[r].late
            => cache.reader[r].data = <<cache.db>>

(***************************************************************************)
(* Part 10 - normalizeArticle, categorizeArticle and extractKeywords       *)
(* (part_010).  A string is the sequence of its characters.                *)
(***************************************************************************)

\* a field the scraped item does not have (it reads as undefined)
Missing == <<"<undefined>">>

\* `${value}` in a template literal
TemplateText(value) ==
    IF value = Missing THEN <<"u", "n", "d", "e", "f", "i", "n", "e", "d">> ELSE value

\* a || b on a field that is a string or undefined
OrElse(a, b) == IF a # Missing /\ a # <<>> THEN a ELSE b

UpperToLower ==
    ("A" :> "a") @@ ("B" :> "b") @@ ("C" :> "c") @@ ("D" :> "d") @@ ("E" :> "e") @@ ("F" :> "f") @@ ("G" :> "g") @@ ("H" :> "h") @@ ("I" :> "i") @@ ("J" :> "j") @@ ("K" :> "k") @@ ("L" :> "l") @@ ("M" :> "m") @@
    ("N" :> "n") @@ ("O" :> "o") @@ ("P" :> "p") @@ ("Q" :> "q") @@ ("R" :> "r") @@ ("S" :> "s") @@ ("T" :> "t") @@ ("U" :> "u") @@ ("V" :> "v") @@ ("W" :> "w") @@ ("X" :> "x") @@ ("Y" :> "y") @@ ("Z" :> "z")

ToLowerCase(text) ==
    [i \in DOMAIN text |->
        IF text[i] \in DOMAIN UpperToLower THEN UpperToLower[text[i]] ELSE text[i]]

\* text.includes(keyword)
Includes(text, keyword) ==
    \E i \in 0 .. Len(text) - Len(keyword) :
        SubSeq(text, i + 1, i + Len(keyword)) = keyword

\* categorizeArticle: the lexicon in the order Object.entries lists it
CategoryLexicon ==
    <<[category |-> "technology",
       keywords |-> <<<<"t", "e", "c", "h">>,
                      <<"a", "i">>,
                      <<"s", "o", "f", "t", "w", "a", "r", "e">>,
                      <<"d", "i", "g", "i", "t", "a", "l">>,
                      <<"c", "o", "m", "p", "u", "t", "e", "r">>>>],
      [category |-> "business",
       keywords |-> <<<<"b", "u", "s", "i", "n", "e", "s", "s">>,
                      <<"f", "i", "n", "a", "n", "c", "e">>,
                      <<"e", "c", "o", "n", "o", "m", "y">>,
                      <<"m", "a", "r", "k", "e", "t">>,
                      <<"c", "o", "m", "p", "a", "n", "y">>>>],
      [category |-> "health",
       keywords |-> <<<<"h", "e", "a", "l", "t", "h">>,
                      <<"m", "e", "d", "i", "c", "a", "l">>,
                      <<"d", "o", "c", "t", "o", "r">>,
                      <<"h", "o", "s", "p", "i", "t", "a", "l">>,
                      <<"t", "r", "e", "a", "t", "m", "e", "n", "t">>>>],
      [category |-> "sports",
       keywords |-> <<<<"s", "p", "o", "r", "t", "s">>,
                      <<"g", "a", "m", "e">>,
                      <<"t", "e", "a", "m">>,
                      <<"p", "l", "a", "y", "e", "r">>,
                      <<"m", "a", "t", "c", "h">>>>],
      [category |-> "politics",
       keywords |-> <<<<"p", "o", "l", "i", "t", "i", "c", "s">>,
                      <<"g", "o", "v", "e", "r", "n", "m", "e", "n", "t">>,
                      <<"e", "l", "e", "c", "t", "i", "o", "n">>,
                      <<"p", "o", "l", "i", "c", "y">>,
                      <<"l", "a", "w">>>>]>>

Categories == {CategoryLexicon[i].category : i \in DOMAIN CategoryLexicon} \cup {"general"}

\* the first category of the lexicon with a keyword in the lower-case text
CategoryOfText(text) ==
    LET hits == {i \in DOMAIN CategoryLexicon :
                    \E k \in DOMAIN CategoryLexicon[i].keywords :
                        Includes(text, CategoryLexicon[i].keywords[k])}
    IN  IF hits = {} THEN "general"
        ELSE CategoryLexicon[CHOOSE i \in hits : \A j \in hits : i <= j].category

\* `${article.title} ${article.content}`.toLowerCase()
TitleAndContent(article) ==
    ToLowerCase(TemplateText(article.title) \o <<" ">> \o TemplateText(article.content))

CategorizeArticle(article) == CategoryOfText(TitleAndContent(article))

\* \w of the regular expression
WordChars == {"a", "b", "c", "d", "e", "f", "g", "h", "i", "j", "k", "l", "m", "n", "o", "p", "q", "r", "s", "t", "u", "v", "w", "x", "y", "z", "0", "1", "2", "3", "4", "5", "6", "7", "8", "9", "_"} \cup DOMAIN UpperToLower

\* the maximal runs of word characters of text, in order
RECURSIVE WordRuns(_, _)
WordRuns(text, run) ==
    IF text = <<>> THEN (IF run = <<>> THEN <<>> ELSE <<run>>)
    ELSE IF Head(text) \in WordChars THEN WordRuns(Tail(text), Append(run, Head(text)))
    ELSE (IF run = <<>> THEN <<>> ELSE <<run>>) \o WordRuns(Tail(text), <<>>)

MinWordLength == 4
MaxKeywords == 10

\* text.match(/\b\w{4,}\b/g) || []
LongWords(text) ==
    LET IsLong(w) == Len(w) >= MinWordLength
    IN  SelectSeq(WordRuns(text, <<>>), IsLong)

\* the keys of the frequency object in the order they were first set
RECURSIVE FirstOccurrences(_, _)
FirstOccurrences(words, seen) ==
    IF words = <<>> THEN <<>>
    ELSE IF Head(words) \in seen THEN FirstOccurrences(Tail(words), seen)
    ELSE <<Head(words)>> \o FirstOccurrences(Tail(words), seen \cup {Head(words)})

CountOf(word, words) == Cardinality({i \in DOMAIN words : words[i] = word})

\* the stable sort by descending frequency: entry e goes behind every entry
\* that is at least as frequent
RECURSIVE ByFrequency(_, _)
ByFrequency(entries, words) ==
    IF entries = <<>> THEN <<>>
    ELSE LET rest == ByFrequency(Tail(entries), words)
             e == Head(entries)
             IsMore(w) == CountOf(w, words) > CountOf(e, words)
             IsNotMore(w) == ~IsMore(w)
         IN  SelectSeq(rest, IsMore) \o <<e>> \o SelectSeq(rest, IsNotMore)

ExtractKeywords(article) ==
    LET words == LongWords(TitleAndContent(article))
        sorted == ByFrequency(FirstOccurrences(words, {}), words)
    IN  SubSeq(sorted, 1, Min(MaxKeywords, Len(sorted)))

\* new Date().toISOString() at the time of the call
Now == <<"n", "o", "w">>

NormalizeArticleFull(rawArticle, source) ==
    [title       |-> OrElse(rawArticle.title, OrElse(rawArticle.headline, <<>>)),
     content     |-> OrElse(rawArticle.content, OrElse(rawArticle.description, <<>>)),
     url         |-> OrElse(rawArticle.url, OrElse(rawArticle.link, <<>>)),
     publishedAt |-> OrElse(rawArticle.publishedAt, OrElse(rawArticle.date, Now)),
     source      |-> source,
     category    |-> CategorizeArticle(rawArticle),
     keywords    |-> ExtractKeywords(rawArticle),
     rawData     |-> rawArticle]

\* processArticleWithOpenAI on a normalized article whose content is a
\* string: the article spread into the result of the try or of the catch
EnrichNormalized(article, ok) ==
    [title       |-> article.title,
     content     |-> article.content,
     url         |-> article.url,
     publishedAt |-> article.publishedAt,
     source      |-> article.source,
     category    |-> article.category,
     keywords    |-> IF ok
                     THEN FirstOccurrences(article.keywords \o <<<<"s", "e", "c", "u", "r", "i", "t", "y">>>>, {})
                     ELSE article.keywords,
     rawData     |-> article.rawData,
     summary     |-> IF ok THEN <<"s", "u", "m">>
                     ELSE Substring(article.content, SummaryLimit) \o <<".", ".", ".">>,
     processingError |-> IF ok THEN Undefined ELSE "Error"]

NormTitles == {Missing, <<>>, <<"A", "I", " ", "n", "e", "w", "s">>, <<"t", "e", "a", "m", " ", "n", "e", "w", "s">>}
NormContents == {Missing, <<"t", "h", "e", " ", "l", "a", "w", ",", " ", "t", "h", "e", " ", "g", "a", "m", "e", ":", " ", "l", "a", "w">>}
NormUrls == {Missing, <<"h", "t", "t", "p", ":", "/", "/", "x">>}
NormDates == {Missing, <<"2", "0", "2", "4">>}

\* the items a scrape returns: every field under its primary name, under
\* its alternate name, under both or not at all
RawArticles ==
    [title : NormTitles, headline : NormTitles,
     content : NormContents, description : NormContents,
     url : NormUrls, link : NormUrls,
     publishedAt : NormDates, date : NormDates]

\* the item that carries the values of item under the other field names
Renamed(item) ==
    [title |-> item.headline, headline |-> item.title,
     content |-> item.description, description |-> item.content,
     url |-> item.link, link |-> item.url,
     publishedAt |-> item.date, date |-> item.publishedAt]

InitNorm ==
    /\ \E raw \in RawArticles :
          norm = [raw |-> <<raw>>, out |-> <<>>, alt |-> <<>>, enriched |-> <<>>]
    /\ EligIdle
    /\ SchedIdle
    /\ ContentIdle
    /\ DedupIdle /\ EnrichIdle /\ PersistIdle
    /\ StatusIdle /\ CacheIdle /\ TransferIdle /\ ProcIdle

normOthers == <<eligVars, schedVars, contentVars, dedup, enrich, persist,
                status, cache, transfer, proc>>

\* normalizeArticle(item, source)
Normalize ==
    /\ norm.out = <<>>
    /\ norm' = [norm EXCEPT !.out = <<NormalizeArticleFull(norm.raw[1], "s1")>>]
    /\ UNCHANGED normOthers

\* normalizeArticle on the same values under the other field names
NormalizeRenamed ==
    /\ norm.alt = <<>>
    /\ norm' = [norm EXCEPT !.alt = <<NormalizeArticleFull(Renamed(norm.raw[1]), "s1")>>]
    /\ UNCHANGED normOthers

\* processArticleWithOpenAI(article) settles, its provider calls having
\* returned (ok) or thrown
NormEnrichSettles(ok) ==
    /\ norm.out # <<>>
    /\ norm.enriched = <<>>
    /\ norm' = [norm EXCEPT !.enriched = <<EnrichNormalized(norm.out[1], ok)>>]
    /\ UNCHANGED normOthers

NextNorm ==
    \/ Normalize
    \/ NormalizeRenamed
    \/ \E ok \in BOOLEAN : NormEnrichSettles(ok)

SpecNorm == InitNorm /\ [][NextNorm]_vars

\* title and content of an article, as one lower-case text
ArticleText(article) == ToLowerCase(article.title \o <<" ">> \o article.content)

\* C23: every article that leaves normalization or enrichment has a
\* category of the fixed set, and it is the first lexicon category, in
\* declared order, with a keyword in the article's text, else 'general'.
C23_CategoryFromText ==
    \A a \in Range(norm.out) \cup Range(norm.enriched) :
        /\ a.category \in Categories
        /\ a.category = CategoryOfText(ArticleText(a))

\* the item has every field under its primary name only
PrimaryOnly(item) ==
    /\ item.title \notin {Missing, <<>>} /\ item.headline = Missing
    /\ item.content # Missing /\ item.description = Missing
    /\ item.url # Missing /\ item.link = Missing
    /\ item.publishedAt # Missing /\ item.date = Missing

\* C29: an item that gives headline, description, link and date yields the
\* same title, content, url, publishedAt, category and keywords as the item
\* that gives the same values as title, content, url and publishedAt.
C29_AlternateNamesAlike ==
    ( /\ norm.out # <<>>
      /\ norm.alt # <<>>
      /\ PrimaryOnly(norm.raw[1]) )
    => \A f \in {"title", "content", "url", "publishedAt", "category", "keywords"} :
          norm.out[1][f] = norm.alt[1][f]

(***************************************************************************)
(* Part 11 - executeFullPipeline under every configuration the constructor *)
(* accepts, with external calls that always settle and timers that fire    *)
(***************************************************************************)

\* iterations of the loop of createBatches that are told apart
MaxLoopSteps == 2

AnyBatchSizeEnv == BatchSizeEnv \cup {"0", "-1"}

InitPipeAny ==
    /\ \E re \in MaxRetriesEnv, de \in RetryDelayEnv, be \in AnyBatchSizeEnv :
          svc = ContentServiceConstructor(re, de, be)
    /\ retry = NoRetry
    /\ pipe = NoPipe
    /\ EligIdle
    /\ SchedIdle
    /\ StageIdle

\* one iteration of createBatches' loop, for (i = 0; i < array.length;
\* i += batchSize), with a batch size below 1: the slice is pushed and i
\* does not grow, so the condition holds again.  Indexes below -MaxLoopSteps
\* are not told apart and the slices pushed are counted modulo
\* MaxLoopSteps + 1.
CreateBatchesLoop ==
    /\ pipe.pc = "batching"
    /\ pipe.i < Len(pipe.raw)
    /\ pipe' = [pipe EXCEPT !.i = IF @ + svc.batchSize < -MaxLoopSteps
                                   THEN -MaxLoopSteps ELSE @ + svc.batchSize,
                            !.pushed = (@ + 1) % (MaxLoopSteps + 1)]
    /\ UNCHANGED <<svc, retry, eligVars, schedVars, stageVars>>

NextPipeAny ==
    \/ NextPipe
    \/ CreateBatchesLoop

\* every pending call settles and every timer fires: a step that stays
\* possible is eventually taken
SpecPipeFair == InitPipeAny /\ [][NextPipeAny]_vars /\ WF_vars(NextPipeAny)

Terminated == pipe.pc \in {"done", "failed"}

\* C24: every executeFullPipeline run terminates (returns or throws), for
\* every retry count, retry delay and batch size the environment can set.
C24_PipelineTerminates == (pipe.pc # "idle") ~> Terminated

(***************************************************************************)
(* Part 12 - the process under SIGTERM / SIGINT: the handler installed by  *)
(* setupGracefulShutdown (scheduler.js) while jobs are in flight           *)
(***************************************************************************)

InitSignal ==
    /\ \E w \in BOOLEAN :
          sched = [enabled |-> TRUE, webhookUrl |-> w, services |-> Capabilities,
                   validSchedule |-> AllValid, stopFails |-> {}]
    /\ jobs = [n \in JobNames |-> "absent"]
    /\ orphans = [n \in JobNames |-> 0]
    /\ isRunning = FALSE
    /\ calls = NoCalls
    /\ execs = EmptyBag
    /\ proc = [pc |-> "running"]
    /\ EligIdle
    /\ ContentIdle
    /\ DedupIdle /\ EnrichIdle /\ PersistIdle
    /\ StatusIdle /\ CacheIdle /\ NormIdle /\ TransferIdle

\* SIGTERM or SIGINT reaches the process: shutdownHandler runs up to its
\* await of this.shutdown(), which has called stop() on every task
Signal(signal) ==
    /\ calls.handlers
    /\ proc.pc = "running"
    /\ ShutdownCallStep
    /\ proc' = [pc |-> "handling"]
    /\ UNCHANGED <<sched, orphans, isRunning, execs, eligVars, contentVars,
                   dedup, enrich, persist, status, cache, norm, transfer>>

\* shutdownHandler resumes after shutdown() has returned: process.exit(0)
\* ends the process with whatever is still in flight
ProcessExit ==
    /\ proc.pc = "handling"
    /\ calls.shutdownPending = 0
    /\ proc' = [pc |-> "exited"]
    /\ UNCHANGED <<eligVars, schedVars, contentVars, dedup, enrich, persist,
                   status, cache, norm, transfer>>

Alive == proc.pc # "exited"

NextSignal ==
    \/ Alive /\ InitializeCall
    \/ Alive /\ InitializeResume
    \/ Alive /\ \E name \in JobNames : CronFire(name)
    \/ Alive /\ \E x \in BagToSet(execs), ok \in BOOLEAN : HandlerSettles(x, ok)
    \/ Alive /\ \E x \in BagToSet(execs), ok \in BOOLEAN : AlertSettles(x, ok)
    \/ Alive /\ ShutdownResume
    \/ \E signal \in {"SIGTERM", "SIGINT"} : Signal(signal)
    \/ ProcessExit

SpecSignal == InitSignal /\ [][NextSignal]_vars

\* C26: when a termination signal arrives while a job is in flight, the
\* handler stops the timers and the process exits only after the job in
\* flight has run to completion.
C26_ExitAfterJobsComplete ==
    proc.pc = "exited" =>
        /\ \A n \in JobNames : jobs[n] # "started"
        /\ \A x \in BagToSet(execs) : ~InFlight(x)

(***************************************************************************)
(* Part 13 - processApifyRun of the transfer scripts (apify-to-airtable.js *)
(* and apify-to-airtable-CORRECTED.js): the loop that sends the items to   *)
(* the store.  An item is known by its position in the list; items are     *)
(* objects and the titles of the extracted articles are strings, as        *)
(* processGoogleSearchResults gets them from the search results.           *)
(***************************************************************************)

\* items of the run's dataset
MaxTransferItems == 12

\* const batchSize = 10
TransferBatchSize == 10

\* items.slice(i, i + batchSize), as the positions of the items
TransferSlice(n, i) == [j \in 1 .. Min(TransferBatchSize, n - i) |-> i + j]

\* the for loop arrives at offset i: past the end the summary is printed,
\* otherwise the batch at i is sent, after a wait of 200 ms unless i is 0
TransferLoop(t, i) ==
    IF i >= t.n THEN [t EXCEPT !.pc = "done", !.i = i, !.k = 0]
    ELSE IF i > 0 THEN [t EXCEPT !.pc = "waiting", !.i = i, !.k = 0]
    ELSE [t EXCEPT !.pc = "batch", !.i = i, !.k = 0,
                   !.submitted = Append(@, TransferSlice(t.n, i))]

\* the inner loop arrives at item k of the batch: createRecord is called for
\* it, or the batch is through and the outer loop goes on
TransferNextRecord(t, k) ==
    IF k > Len(TransferSlice(t.n, t.i))
    THEN TransferLoop(t, t.i + TransferBatchSize)
    ELSE [t EXCEPT !.pc = "single", !.k = k]

\* a failed createRecord ending the whole transfer
AfterRecordFailed_Abort(t) == [t EXCEPT !.pc = "done"]

\* the catch of the inner try: the failure is printed and the loop goes on
AfterRecordFailed(t) == TransferNextRecord(t, t.k + 1)

InitTransfer ==
    /\ transfer = NoTransfer
    /\ EligIdle
    /\ SchedIdle
    /\ ContentIdle
    /\ DedupIdle /\ EnrichIdle /\ PersistIdle
    /\ StatusIdle /\ CacheIdle /\ NormIdle /\ ProcIdle

transferOthers == <<eligVars, schedVars, contentVars, dedup, enrich, persist,
                    status, cache, norm, proc>>

\* processApifyRun once the run's n items are fetched: no item ends it
ProcessApifyRun(n) ==
    /\ transfer.pc = "idle"
    /\ transfer' = TransferLoop([NoTransfer EXCEPT !.n = n], 0)
    /\ UNCHANGED transferOthers

\* the 200 ms between batches are over: createBatch is called
BatchDelayElapses ==
    /\ transfer.pc = "waiting"
    /\ transfer' = [transfer EXCEPT !.pc = "batch",
                                    !.submitted = Append(@, TransferSlice(transfer.n, transfer.i))]
    /\ UNCHANGED transferOthers

\* createBatch settles: its records are counted, or the catch starts the
\* pass over the single items of the batch
CreateBatchSettles(ok) ==
    /\ transfer.pc = "batch"
    /\ transfer' =
          IF ok
          THEN TransferLoop([transfer EXCEPT !.totalCreated =
                                @ + Len(TransferSlice(transfer.n, transfer.i))],
                            transfer.i + TransferBatchSize)
          ELSE TransferNextRecord([transfer EXCEPT !.failed = @ \cup {Len(transfer.submitted)}], 1)
    /\ UNCHANGED transferOthers

\* createRecord of the current item settles: counted and followed by a wait
\* of 100 ms, or caught
CreateRecordSettles(ok) ==
    /\ transfer.pc = "single"
    /\ LET item == TransferSlice(transfer.n, transfer.i)[transfer.k]
           t == [transfer EXCEPT !.singles = Append(@, [item |-> item, ok |-> ok])]
       IN  transfer' = IF ok THEN [t EXCEPT !.pc = "pause", !.totalCreated = @ + 1]
                       ELSE AfterRecordFailed(t)
    /\ UNCHANGED transferOthers

\* the 100 ms after a written record are over
RecordDelayElapses ==
    /\ transfer.pc = "pause"
    /\ transfer' = TransferNextRecord(transfer, transfer.k + 1)
    /\ UNCHANGED transferOthers

NextTransfer ==
    \/ \E n \in 0 .. MaxTransferItems : ProcessApifyRun(n)
    \/ BatchDelayElapses
    \/ \E ok \in BOOLEAN : CreateBatchSettles(ok)
    \/ \E ok \in BOOLEAN : CreateRecordSettles(ok)
    \/ RecordDelayElapses

SpecTransfer == InitTransfer /\ [][NextTransfer]_vars

\* the single writes attempted for the items of batch, in order
SinglesOf(batch) ==
    LET InBatch(e) == e.item \in Range(batch)
    IN  SelectSeq(transfer.singles, InBatch)

\* the pass over the single items of batch number b is over
PassOver(b) == Len(transfer.submitted) > b \/ transfer.pc = "done"

RECURSIVE SumOfLengths(_)
SumOfLengths(batches) ==
    IF batches = <<>> THEN 0 ELSE Len(Head(batches)) + SumOfLengths(Tail(batches))

\* the batches whose createBatch returned
WrittenBatches ==
    LET IsWritten(b) == \E k \in DOMAIN transfer.submitted :
                            /\ transfer.submitted[k] = b
                            /\ k \notin transfer.failed
                            /\ (k < Len(transfer.submitted) \/ transfer.pc # "batch")
    IN  SelectSeq(transfer.submitted, IsWritten)

\* C30: the items are sent in consecutive batches of at most 10; for a
\* batch whose createBatch threw, createRecord is attempted exactly once per
\* item of the batch, in order; a failed createRecord stops neither the rest
\* of its batch nor the later batches; and totalCreated is the number of
\* records of the batches written plus the number of single writes that
\* succeeded.
C30_BatchThenSingles ==
    /\ \A b \in DOMAIN transfer.submitted :
          /\ Len(transfer.submitted[b]) <= 10
          /\ transfer.submitted[b] =
                [j \in 1 .. Len(transfer.submitted[b]) |-> (b - 1) * 10 + j]
          /\ (b \in transfer.failed /\ PassOver(b)) =>
                [j \in DOMAIN SinglesOf(transfer.submitted[b]) |->
                    SinglesOf(transfer.submitted[b])[j].item] = transfer.submitted[b]
          /\ b \notin transfer.failed => SinglesOf(transfer.submitted[b]) = <<>>
    /\ transfer.pc = "done" => SumOfLengths(transfer.submitted) = transfer.n
    /\ transfer.totalCreated =
          SumOfLengths(WrittenBatches)
              + Cardinality({j \in DOMAIN transfer.singles : transfer.singles[j].ok})

\* the first batch of ten failed, the single write of its second item
\* failed and that of its last item succeeded, and the second batch was
\* written
C30_Witness ==
    /\ transfer.pc = "done"
    /\ transfer.failed = {1}
    /\ Len(transfer.submitted) = 2
    /\ Len(transfer.singles) = 10
    /\ ~transfer.singles[2].ok
    /\ transfer.singles[10].ok
    /\ transfer.totalCreated > 2

====
